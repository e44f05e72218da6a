------------------------------ MODULE SensorAlarms ------------------------------
(***************************************************************************)
(* The alarms of the sensors, core/sensors.c: every sensor has a low and a *)
(* high limit, and a sample beyond a limit that is enabled raises an       *)
(* alarm, which sounds until an exchange ends well.  A limit of a sensor   *)
(* of type NOTIFY_ONCE raises one when the samples go beyond it; one of    *)
(* type NOTIFY_ALWAYS raises one at every sample.                          *)
(*                                                                         *)
(* The ALARM command is here too: the parser makes a copy of the whole     *)
(* table, flags included, for each command of a batch, and executing the   *)
(* command puts its copy in place.  Module Heartbeat, which extends this   *)
(* one, says when samples, commands and the ends of exchanges come.        *)
(*                                                                         *)
(* A sample is the set of limits it is beyond; the limits being anything a *)
(* user likes, low above high included, it may be any set.                 *)
(***************************************************************************)
EXTENDS Naturals, Sequences

CONSTANTS
  AtmoLimits,       \* the limits of the sensors read on demand (P, T, H)
  MovementLimits,   \* the limits of the sensor that notifies its value (M)
  MaxBatch          \* bound: ALARM commands parsed at a time

Limits == AtmoLimits \cup MovementLimits

(* main.c, set_sensors_types: movement is of type NOTIFY_ALWAYS *)
NotifyOnce == AtmoLimits

ASSUME AlarmsAssumption ==
  /\ AtmoLimits \cap MovementLimits = {}
  /\ MaxBatch \in Nat \ {0}

VARIABLES
  enabled,    \* the limits whose alarm is enabled
  active,     \* those that are not to be notified again
  sounding,   \* those with an alarm that waits to be sounded
  copies,     \* the ALARM commands in commands_buffer
  beyond      \* history: NOTIFY_ONCE limits the last sample of their sensor was beyond

sensorsAlarms == <<enabled, active, sounding>>
alarmTable    == <<sensorsAlarms, copies, beyond>>

(* sensors_init; init_wolksensor enables the limit of movement *)
AlarmsInit ==
  /\ enabled = MovementLimits /\ active = {} /\ sounding = {}
  /\ copies = <<>> /\ beyond = {}

(* sensors_have_unsounded_alarms *)
Unsounded == sounding # {}

-------------------------------------------------------------------------------
(* check_sensor_alarm_updates for the sensors with the limits checked,     *)
(* their samples being beyond the limits of crossed                        *)
Found(crossed)     == crossed \cap enabled
NewAlarms(crossed) == Found(crossed) \ active

MutantSoundingAfter(checked, crossed) == (sounding \ checked) \cup NewAlarms(crossed)
SoundingAfter(checked, crossed)       == sounding \cup NewAlarms(crossed)

Check(checked, crossed) ==
  /\ sounding' = SoundingAfter(checked, crossed)
  /\ active' = (active \ checked) \cup (Found(crossed) \cap NotifyOnce)
  /\ beyond' = (beyond \ checked) \cup (Found(crossed) \cap NotifyOnce)
  /\ UNCHANGED <<enabled, copies>>

-------------------------------------------------------------------------------
(* parse_alarm_argument: a copy of the table as it is now, with the limits *)
(* of the argument in place                                                *)
MutantCopy(limits) == [enabled |-> limits, active |-> {}, sounding |-> sounding]
Copy(limits)       == [enabled |-> limits, active |-> active, sounding |-> sounding]

(* extract_commands_from_string_buffer: the whole batch is parsed before   *)
(* any of it is executed                                                   *)
Parse ==
  /\ copies = <<>>
  /\ \E n \in 1..MaxBatch : \E limits \in [1..n -> SUBSET Limits] :
       copies' = [i \in 1..n |-> Copy(limits[i])]
  /\ UNCHANGED <<sensorsAlarms, beyond>>

(* cmd_alarm *)
Execute ==
  /\ copies # <<>>
  /\ enabled' = Head(copies).enabled
  /\ active' = Head(copies).active
  /\ sounding' = Head(copies).sounding
  /\ copies' = Tail(copies)
  /\ UNCHANGED beyond

(* execute_commands during an exchange: a command with an argument is not  *)
(* executed                                                                *)
Refuse ==
  /\ copies # <<>>
  /\ copies' = Tail(copies)
  /\ UNCHANGED <<sensorsAlarms, beyond>>

-------------------------------------------------------------------------------
(* The type of the table; no more alarms than the limits there are. *)
AlarmsTypeOK ==
  /\ enabled \subseteq Limits /\ sounding \subseteq Limits
  /\ active \subseteq NotifyOnce /\ beyond \subseteq NotifyOnce
  /\ copies \in Seq([enabled : SUBSET Limits, active : SUBSET NotifyOnce,
                     sounding : SUBSET Limits])
===============================================================================
