----------------------------- MODULE LedService -----------------------------
(***************************************************************************)
(* What led.h promises to its callers, without threads, queue or clock:    *)
(* every command is obeyed exactly once, the commands of one caller in the *)
(* order it sent them, and a LED changes by itself only when it blinks, in *)
(* the way its last command asked for.  Led implements this.               *)
(***************************************************************************)
EXTENDS Integers, Sequences

CONSTANTS
  Leds,     \* the LEDs of the board
  Clients,  \* the callers of led_command
  Calls     \* who sends which message

VARIABLES
  outstanding,  \* outstanding[c]: the commands of c not yet obeyed
  shown         \* shown[l]: the state and the value of LED l

vars == <<outstanding, shown>>

Init ==
  /\ outstanding = [c \in Clients |-> << >>]
  /\ shown = [l \in Leds |-> [state |-> "IDLE", value |-> 0]]

Send(call) ==
  /\ outstanding' = [outstanding EXCEPT ![call.client] = Append(@, call.msg)]
  /\ UNCHANGED shown

\* What a LED shows right after a command.
Obeyed(msg) ==
  CASE msg.cmd = "SET" -> [state |-> "IDLE", value |-> msg.arg]
    [] OTHER           -> [state |-> msg.cmd, value |-> 1]

Obey(c) ==
  /\ outstanding[c] # << >>
  /\ LET msg == Head(outstanding[c])
     IN  shown' = [shown EXCEPT ![msg.id] = Obeyed(msg)]
  /\ outstanding' = [outstanding EXCEPT ![c] = Tail(@)]

\* The next phase of a LED that blinks: the other value, or the end.
NextPhase(led) ==
  IF led.state = "BLINK" THEN [led EXCEPT !.value = 1 - @]
  ELSE [state |-> "IDLE", value |-> 0]

Elapse(changing) ==
  /\ \A l \in changing : shown[l].state # "IDLE"
  /\ shown' = [l \in Leds |-> IF l \in changing THEN NextPhase(shown[l]) ELSE shown[l]]
  /\ UNCHANGED outstanding

Next ==
  \/ \E call \in Calls : Send(call)
  \/ \E c \in Clients : Obey(c)
  \/ \E changing \in SUBSET Leds : Elapse(changing)

Spec == Init /\ [][Next]_vars

=============================================================================
