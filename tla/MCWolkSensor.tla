---------------------------- MODULE MCWolkSensor ----------------------------
(***************************************************************************)
(* Instances of WolkSensor for TLC.                                        *)
(***************************************************************************)
EXTENDS WolkSensor

Spent(minute, movement, command, usbChanges, reset) ==
  [s \in Sources |-> CASE s = "minute"   -> minute
                       [] s = "movement" -> movement
                       [] s = "command"  -> command
                       [] s = "usb"      -> usbChanges
                       [] s = "reset"    -> reset]

(* The server answers with commands that do and do not act on the buffers, *)
(* or with an empty message.                                               *)
Answers == {<<"WRITE", "CLEAR">>, <<>>}

(* Of these the shortest that matter when the contents do not. *)
Acknowledgements == {<<"NOW">>, <<>>}

(* Movement, of which the second may meet the exchange of the first, a user *)
(* who may ask for a third reading, and a watchdog.                        *)
MovementAndUser == Spent(0, 2, 1, 1, 1)

(* A session of a user at the USB connection, with a heartbeat and an       *)
(* acquisition: enough to fill a queue of three.                           *)
UsbSession == Spent(1, 0, 2, 1, 0)

(* A movement that starts an exchange and one that meets it. *)
TwoMovements == Spent(0, 2, 0, 0, 0)
===============================================================================
