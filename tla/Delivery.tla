------------------------------ MODULE Delivery ------------------------------
(***************************************************************************)
(* What the node and the monitor promise together: an alarm that the modem *)
(* accepted is shown on the host at most once, in the order of the alarms, *)
(* and as the alarm it is, or it is lost on its way.  LoRaWAN does not     *)
(* repeat an unconfirmed uplink and MQTT's QoS 0 does not repeat a message.*)
(***************************************************************************)
EXTENDS Sequences, SequencesExt

CONSTANTS
    Senders,
    Shown(_)     \* the lines that may be printed for a sender's alarm

VARIABLES
    owed,        \* the senders of the alarms that are neither shown nor lost
    lines        \* what the host shows of the present message

vars == <<owed, lines>>

Init == owed = <<>> /\ lines = <<>>

Promise(s) == owed' = Append(owed, s) /\ UNCHANGED lines

Lose(i) == owed' = RemoveAt(owed, i) /\ UNCHANGED lines

Show == /\ owed # <<>>
        /\ \E line \in Shown(Head(owed)) : lines' = <<line>>
        /\ owed' = Tail(owed)

Clear == lines' = <<>> /\ UNCHANGED owed

Next == \/ \E s \in Senders : Promise(s)
        \/ \E i \in DOMAIN owed : Lose(i)
        \/ Show
        \/ Clear

Spec == Init /\ [][Next]_vars
=============================================================================
