------------------------------- MODULE Accel -------------------------------
(***************************************************************************)
(* src/src/accel/accel.c: accel_thread, which sets the accelerometer up    *)
(* and ends, accel_callback, which the accelerometer's trigger runs on     *)
(* every movement, and accel_has_moved, which another thread polls.  The   *)
(* last two share the flag accel_has_called_back, without a lock: a        *)
(* callback may come between the two statements of accel_has_moved.        *)
(***************************************************************************)
EXTENDS Naturals

VARIABLES
  trigger,   \* "unset" until accel_thread has run, then "set" or "failed"
  accel_has_called_back,  \* the flag
  callback,  \* "idle", or "led": in the led_command of accel_callback
  reader,    \* "idle", or "read": accel_has_moved has read the flag
  rc,        \* what accel_has_moved read
  unread     \* ghost: a movement came that accel_has_moved has not read

vars == <<trigger, accel_has_called_back, callback, reader, rc, unread>>

Init ==
  /\ trigger = "unset"
  /\ accel_has_called_back = 0
  /\ callback = "idle"
  /\ reader = "idle"
  /\ rc = 0
  /\ unread = FALSE

\* accel_thread: the attributes, then the trigger.  Nobody looks whether the
\* driver refused one of them; if it refused the trigger, it never calls back.
AccelThread ==
  /\ trigger = "unset"
  /\ trigger' \in {"set", "failed"}
  /\ UNCHANGED <<accel_has_called_back, callback, reader, rc, unread>>

\* accel_callback up to its call of led_command.
Moved ==
  /\ trigger = "set"
  /\ callback = "idle"
  /\ accel_has_called_back' = 1
  /\ callback' = "led"
  /\ unread' = TRUE
  /\ UNCHANGED <<trigger, reader, rc>>

\* led_command returned; the uplink that is requested changes nothing here.
Uplink ==
  /\ callback = "led"
  /\ callback' = "idle"
  /\ UNCHANGED <<trigger, accel_has_called_back, reader, rc, unread>>

\* accel_has_moved, before its assignment.
ReadFlag ==
  /\ reader = "idle"
  /\ rc' = accel_has_called_back
  /\ reader' = "read"
  /\ unread' = (unread /\ accel_has_called_back = 0)
  /\ UNCHANGED <<trigger, accel_has_called_back, callback>>

\* A return that would leave the flag.
ClearFlag_Forgotten ==
  /\ reader = "read"
  /\ reader' = "idle"
  /\ UNCHANGED <<trigger, accel_has_called_back, callback, rc, unread>>

\* accel_has_moved, from its assignment to its return.
ClearFlag ==
  /\ reader = "read"
  /\ accel_has_called_back' = 0
  /\ reader' = "idle"
  /\ UNCHANGED <<trigger, callback, rc, unread>>

Next == AccelThread \/ Moved \/ Uplink \/ ReadFlag \/ ClearFlag

Spec == Init /\ [][Next]_vars

\* accel.c:81: accel_has_moved returns the "flag that says accelerometer has
\* generated an interrupt": a movement stays flagged until it is read.
MovementStaysFlagged == unread => accel_has_called_back = 1

\* accel_has_moved reads a movement at most once: the flag it left set by a
\* callback during the last call is not one that was already reported.
ReportedOnce ==
  [][reader = "idle" /\ reader' = "read" /\ rc' = 1 => unread]_vars

=============================================================================
