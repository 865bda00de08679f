------------------------------- MODULE MCLed -------------------------------
(* Small instances of Led for TLC: the calls of led_command in the source. *)
EXTENDS Led

CONSTANTS red, green, main, sensor, accel

Call(client, id, cmd, arg) ==
  [client |-> client, msg |-> [id |-> id, cmd |-> cmd, arg |-> arg]]

\* The calls of ct_main.c:50, pir.c:42 and accel.c:67, with shorter durations:
\* as in the source, all of them are longer than a wait of k_msgq_get.
MCCalls ==
  {Call(main, green, "BLINK", 4), Call(sensor, red, "SET", 1),
   Call(accel, green, "BLINK_ONCE", 3)}

\* Those of driveway_sensor.c:47 and 50 and accel.c:67: both LEDs blink.
MCTimingCalls ==
  {Call(sensor, red, "BLINK", 2), Call(sensor, red, "SET", 0),
   Call(accel, green, "BLINK_ONCE", 3)}

\* ct_main runs on the main thread (priority 0), the sensors' threads have 3.
MCRank == [c \in Clients |-> IF c = main THEN 0 ELSE 3]

=============================================================================
