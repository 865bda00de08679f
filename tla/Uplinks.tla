------------------------------- MODULE Uplinks -------------------------------
(***************************************************************************)
(* The way of an uplink from the node to the host: the sensors' threads    *)
(* (pir.c:54, driveway_sensor.c:63) and the accelerometer's callback       *)
(* (accel.c:69) hand it to the modem, the sensors then wake the semtracker *)
(* thread that serves the radio, the network delivers it or not, and the   *)
(* monitor (Host) prints it.                                               *)
(*                                                                         *)
(* There is no clock: an alarm may come at any moment, which AlarmSensor   *)
(* restricts.  The semtracker and the modem are not in the repository:     *)
(* the thread sleeps when the modem has nothing to send, until its timer   *)
(* or semtracker_thread_wakeup ends its sleep.                             *)
(***************************************************************************)
EXTENDS Integers, Sequences, SequencesExt

CONSTANTS
    Payload,     \* what each sender sends
    Slots,       \* how many uplinks the modem holds
    Junk,        \* of Host
    Alarms,      \* how often each sender sends: bound of the instance
    Receives     \* of Host

Senders == {"pir", "driveway", "accel"}

ASSUME UplinksConstants ==
    /\ Payload \in [Senders -> Seq(0 .. 255)]
    /\ Slots \in Nat \ {0}
    /\ Junk \subseteq 0 .. 255
    /\ Alarms \in [Senders -> Nat]
    /\ Receives \in Nat

VARIABLES
    pc,          \* of each sender: "idle", or "requested": before its wake-up
    sent,        \* how often each sender has requested an uplink
    modem,       \* the senders of the uplinks the modem holds, oldest first
    radio,       \* the semtracker thread: "awake" or "asleep"
    transit,     \* the senders of the uplinks in the air, the network, the broker
    phase, seconds, unread, tokens, key, last_token_type, event, lines, message,
    malloced

node    == <<pc, sent, modem, radio>>
monitor == <<phase, seconds, unread, tokens, key, last_token_type, event, lines, message,
             malloced>>
vars    == <<node, transit, monitor>>

Port(s) == CASE s = "pir" -> 60 [] s = "driveway" -> 70 [] s = "accel" -> 111

Sensors == {"pir", "driveway"}

Monitor == INSTANCE Host WITH
    Ports <- {0} \cup {Port(s) : s \in Senders},
    Payloads <- {<<>>} \cup {Payload[s] : s \in Senders}

(* The texts of the firmware are ASCII, and their base64 has no '+' and no *)
(* '/', which the monitor could not read.                                  *)
ASSUME PayloadsAreClear ==
    \A s \in Senders : Monitor!Clear(Payload[s])

(* The network server's message for an uplink, in the order it writes the  *)
(* members, with another member between.                                   *)
UplinkMessage(s) ==
    [topic |-> "up",
     doc   |-> <<[name |-> "fPort", value |-> Monitor!Plain(Port(s))],
                 [name |-> "rxInfo", value |-> Monitor!Plain("other")],
                 [name |-> "data", value |-> Monitor!Plain(Payload[s])]>>]

\* Joins, acknowledgements and what other applications publish.
OtherMessage == [UplinkMessage("pir") EXCEPT !.topic = "application"]

Init == /\ pc = [s \in Senders |-> "idle"]
        /\ sent = [s \in Senders |-> 0]
        /\ modem = <<>>
        /\ radio \in {"awake", "asleep"}
        /\ transit = <<>>
        /\ Monitor!Init

-----------------------------------------------------------------------------
(* The node                                                                *)

\* The driveway sensor without its wake-up.
WakesAfter_PirOnly == {"pir"}

\* Who calls semtracker_thread_wakeup after the request; in accel_callback the
\* call is commented out.
WakesAfter == {"pir", "driveway"}

(* smtc_modem_request_uplink: the modem takes the uplink or refuses it,    *)
(* when it is full or busy.  The sender prints the answer and goes on.     *)
RequestUplink(s) ==
    /\ pc[s] = "idle" /\ sent[s] < Alarms[s]
    /\ sent' = [sent EXCEPT ![s] = @ + 1]
    /\ pc' = [pc EXCEPT ![s] = IF s \in WakesAfter THEN "requested" ELSE "idle"]
    /\ \/ Len(modem) < Slots /\ modem' = Append(modem, s)
       \/ UNCHANGED modem
    /\ UNCHANGED <<radio, transit, monitor>>

\* semtracker_thread_wakeup, after an accepted request and a refused one.
WakeTracker(s) ==
    /\ pc[s] = "requested"
    /\ pc' = [pc EXCEPT ![s] = "idle"]
    /\ radio' = "awake"
    /\ UNCHANGED <<sent, modem, transit, monitor>>

TimerWakes ==
    /\ radio = "asleep"
    /\ radio' = "awake"
    /\ UNCHANGED <<pc, sent, modem, transit, monitor>>

FallAsleep ==
    /\ radio = "awake" /\ modem = <<>>
    /\ radio' = "asleep"
    /\ UNCHANGED <<pc, sent, modem, transit, monitor>>

\* The radio sends the oldest uplink once, unconfirmed.
Transmit ==
    /\ radio = "awake" /\ modem # <<>>
    /\ modem' = Tail(modem)
    /\ \/ transit' = Append(transit, Head(modem))
       \/ UNCHANGED transit
    /\ UNCHANGED <<pc, sent, radio, monitor>>

-----------------------------------------------------------------------------
(* The way and the host                                                    *)

(* An uplink is lost behind the gateway too, as are those that are         *)
(* published while nobody is subscribed.                                   *)
Lose ==
    /\ \E i \in DOMAIN transit : transit' = RemoveAt(transit, i)
    /\ UNCHANGED <<node, monitor>>

Arrive ==
    /\ transit # <<>>
    /\ Monitor!Receive(UplinkMessage(Head(transit)))
    /\ transit' = Tail(transit)
    /\ UNCHANGED node

OtherArrives ==
    /\ Monitor!Receive(OtherMessage)
    /\ UNCHANGED <<node, transit>>

MonitorRuns ==
    /\ \/ Monitor!ReceiveTimesOut \/ Monitor!ReceiveFails \/ Monitor!LoopEnds
       \/ Monitor!ScanToken \/ Monitor!ParseEnds
    /\ UNCHANGED <<node, transit>>

Next == \/ \E s \in Senders : RequestUplink(s) \/ WakeTracker(s)
        \/ TimerWakes \/ FallAsleep \/ Transmit
        \/ Lose \/ Arrive \/ OtherArrives \/ MonitorRuns

Spec == Init /\ [][Next]_vars

(* The sensors' threads go on after their request, and a semtracker that   *)
(* is awake serves the radio.  Its timer is not relied on.                 *)
FairSpec == /\ Spec
            /\ \A s \in Senders : WF_vars(WakeTracker(s))
            /\ WF_vars(Transmit)

-----------------------------------------------------------------------------
(* Properties                                                              *)

Holds(s) == \E i \in DOMAIN modem : modem[i] = s

TypeOK ==
    /\ pc \in [Senders -> {"idle", "requested"}]
    /\ sent \in [Senders -> Nat]
    /\ modem \in Seq(Senders) /\ Len(modem) <= Slots
    /\ radio \in {"awake", "asleep"}
    /\ transit \in Seq(Senders)

(* pir.c:60: "The radio may be in sleep mode, so wake it.": while a        *)
(* sensor's alarm waits in the modem of a sleeping radio, that sensor is   *)
(* about to wake it, although the radio may fall asleep, and other uplinks *)
(* may come and go, between any two steps.                                 *)
AlarmsWakeTheRadio ==
    \A s \in Sensors : radio = "asleep" /\ Holds(s) => pc[s] = "requested"

(* An alarm that the modem accepted leaves the node: it is not left in a   *)
(* sleeping modem.  This is not so for the accelerometer's uplink, whose   *)
(* wake-up is commented out.                                               *)
AlarmsLeaveTheNode ==
    \A s \in Sensors : Holds(s) ~> ~Holds(s)

(* Node, network and monitor implement Delivery.                           *)
SenderOf(m) ==
    CHOOSE s \in Senders : Port(s) = m.doc[1].value.items[1]

\* The uplink the monitor parses.
InHand == IF phase = "parsing" THEN <<SenderOf(message)>> ELSE <<>>

Owed == InHand \o transit \o modem

MayShow(s) == {Monitor!Line(Port(s), Payload[s]), Monitor!Line(Port(s), <<>>)}

Abstract == INSTANCE Delivery WITH owed <- Owed, Shown <- MayShow

ImplementsDelivery == Abstract!Spec

=============================================================================
