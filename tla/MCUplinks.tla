------------------------------ MODULE MCUplinks ------------------------------
(* Constants of Uplinks for TLC.                                           *)
EXTENDS Uplinks

\* "pir_0: alarm", "driveway_sensor_0: alarm" and "Hello World".
MCPayload == [s \in Senders |->
                CASE s = "pir" -> <<112, 105, 114, 95, 48, 58, 32, 97, 108, 97, 114, 109>>
                  [] s = "driveway" -> <<100, 114, 105, 118, 101, 119, 97, 121, 95,
                                         115, 101, 110, 115, 111, 114, 95, 48, 58, 32,
                                         97, 108, 97, 114, 109>>
                  [] s = "accel" -> <<72, 101, 108, 108, 111, 32, 87, 111, 114, 108, 100>>]

MCAlarms == [s \in Senders |-> IF s = "pir" THEN 2 ELSE 1]
=============================================================================
