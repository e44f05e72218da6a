------------------------------- MODULE Heartbeat -------------------------------
(***************************************************************************)
(* The interval between two connections, application/wolksensor.c.  The    *)
(* interrupt of the clock counts minutes in heartbeat_timer and raises     *)
(* EVENT_HEARTBEAT when it reaches current_heartbeat; the main loop sets   *)
(* current_heartbeat when the user asks for another interval, when the     *)
(* device comes on USB, and at the end of every exchange: back to the      *)
(* user's interval on success, doubled after every second failure in a row *)
(* on battery.  What the event does, and when an exchange ends, is module  *)
(* WolkSensor's; here exchanges end at any time, one way or the other.     *)
(* While alarms wait to be sounded failures do not count, so the alarms of *)
(* the sensors are here as well (module SensorAlarms), with the samples    *)
(* that raise them and the commands that change them.                      *)
(*                                                                         *)
(* start_heartbeat shares heartbeat_timer with the interrupt and does not  *)
(* disable it: reading the timer, writing it and writing the period are    *)
(* steps of their own.                                                     *)
(*                                                                         *)
(* An operator named Mutant... is the one below it with a bug; it shows    *)
(* that a property notices (README) and the specification never uses it.   *)
(***************************************************************************)
EXTENDS Integers, SensorAlarms

CONSTANTS
  MaxNoConnectionHeartbeat,   \* MAX_NO_CONNECTION_HEARTBEAT
  MaxAlarmRetries,            \* MAX_ALARM_RETRIES
  TimerRange,                 \* 2^16: the values of a uint16_t
  CountRange,                 \* 2^8:  the values of a uint8_t
  FirstPeriods,               \* the values of system_heartbeat at start
  Periods,                    \* the intervals users and the server ask for
  MaxUsbChanges,              \* bound: times the USB cable is moved
  MaxFailures,                \* bound: failures without a success
  MaxMinutes                  \* bound: minutes

ASSUME HeartbeatAssumption ==
  /\ MaxNoConnectionHeartbeat \in Nat \ {0} /\ MaxAlarmRetries \in Nat
  /\ TimerRange \in Nat \ {0} /\ CountRange \in Nat \ {0}
  /\ MaxNoConnectionHeartbeat < TimerRange
  /\ FirstPeriods \subseteq 1..MaxNoConnectionHeartbeat
  /\ Periods \subseteq 0..(TimerRange - 1)
  /\ MaxUsbChanges \in Nat /\ MaxFailures \in Nat /\ MaxMinutes \in Nat

VARIABLES
  current,        \* current_heartbeat
  timer,          \* heartbeat_timer
  system,         \* system_heartbeat
  noConnection,   \* no_connection_heartbeat
  count,          \* no_connection_count
  usb,            \* power_state, what get_usb_state returns
  connects,       \* EVENT_USB_CONNECTED in events_buffer
  retries,        \* sound_alarm_retries
  setting,        \* where start_heartbeat is, and with what
  failed,         \* history: failures counted since no_connection_count was 0
  base,           \* history: interval at the first of them, 0 if changed since
  moved,          \* bound: USB changes so far
  minutes         \* bound: minutes so far

backOff == <<noConnection, count, failed, base>>
alarms  == <<alarmTable, retries>>
bounds  == <<moved, minutes>>
vars == <<current, timer, system, backOff, usb, connects, alarms, setting, bounds>>

Lower(a, b) == IF a < b THEN a ELSE b

(* start_heartbeat is not running, has found a new period, or has read the *)
(* timer and computed its new value                                        *)
NotSetting == [step |-> "none", period |-> 0, value |-> 0]
Steps      == {"none", "read", "timer", "period"}
MainLoop   == setting = NotSetting

-------------------------------------------------------------------------------
(* init_wolksensor: brownout is false here, so the first period is 1       *)
Init ==
  /\ current = 1 /\ timer = 0
  /\ system \in FirstPeriods
  /\ noConnection = Lower(10, MaxNoConnectionHeartbeat) /\ count = 0
  /\ usb = FALSE /\ connects = 0
  /\ AlarmsInit /\ retries = 0
  /\ setting = NotSetting
  /\ failed = 0 /\ base = 0 /\ moved = 0 /\ minutes = 0

(* minute_expired_listener *)
MinuteExpired ==
  /\ minutes < MaxMinutes /\ minutes' = minutes + 1
  /\ LET next == (timer + 1) % TimerRange IN
       timer' = IF current = 0 THEN timer ELSE IF next = current THEN 0 ELSE next
  /\ UNCHANGED <<current, system, backOff, usb, connects, alarms, setting, moved>>

-------------------------------------------------------------------------------
(* start_heartbeat(period), as the last thing its callers do *)
MutantStartHeartbeat(period) ==
  setting' = IF period = system THEN setting
                                ELSE [NotSetting EXCEPT !.step = "read", !.period = period]

StartHeartbeat(period) ==
  setting' = IF period = current THEN setting
                                 ELSE [NotSetting EXCEPT !.step = "read", !.period = period]

(* heartbeat_timer % period for a period of 0, which the parser lets in,   *)
(* is undefined; the division routine of the AVR returns the dividend.     *)
Remainder(value, period) == IF period = 0 THEN value ELSE value % period

ReadTimer ==
  /\ setting.step = "read"
  /\ setting' = IF timer = 0
       THEN [setting EXCEPT !.step = "period"]
       ELSE [setting EXCEPT !.step = "timer",
               !.value = (setting.period - Remainder(timer, setting.period)) % TimerRange]
  /\ UNCHANGED <<current, timer, system, backOff, usb, connects, alarms, bounds>>

WriteTimer ==
  /\ setting.step = "timer"
  /\ timer' = setting.value
  /\ setting' = [setting EXCEPT !.step = "period", !.value = 0]
  /\ UNCHANGED <<current, system, backOff, usb, connects, alarms, bounds>>

WritePeriod ==
  /\ setting.step = "period"
  /\ current' = setting.period
  /\ setting' = NotSetting
  /\ UNCHANGED <<timer, system, backOff, usb, connects, alarms, bounds>>

-------------------------------------------------------------------------------
MutantRecovered(period) ==
  /\ count' = count /\ failed' = 0 /\ base' = 0
  /\ noConnection' = period

Recovered(period) ==
  /\ count' = 0 /\ failed' = 0 /\ base' = 0
  /\ noConnection' = period

(* cmd_heartbeat: out of range is refused, the same value is no change.    *)
(* Nothing of the no connection state follows the new interval.            *)
HeartbeatCommand ==
  /\ MainLoop
  /\ \E period \in Periods :
       /\ period # system /\ period <= MaxNoConnectionHeartbeat
       /\ system' = period
       /\ StartHeartbeat(period)
  /\ base' = 0
  /\ UNCHANGED <<current, timer, noConnection, count, failed, usb, connects, alarms, bounds>>

(* wolksensor_handler, EVENT_USB_CONNECTED *)
UsbConnected ==
  /\ MainLoop /\ connects > 0
  /\ connects' = connects - 1
  /\ Recovered(system)
  /\ StartHeartbeat(system)
  /\ UNCHANGED <<current, timer, system, usb, alarms, bounds>>

(* the polling of the USB line and usb_state_change_listener *)
UsbChanged ==
  /\ moved < MaxUsbChanges /\ moved' = moved + 1
  /\ usb' = ~usb
  /\ connects' = IF usb THEN connects ELSE connects + 1
 
  /\ UNCHANGED <<current, timer, system, backOff, alarms, setting, minutes>>

-------------------------------------------------------------------------------
(* sensors_states_listener and process_alarms: new alarms, or a retry of   *)
(* old ones                                                                *)
SensorsStates(limits) ==
  \E crossed \in SUBSET limits :
    /\ Check(limits, crossed)
    /\ retries' = IF NewAlarms(crossed) # {} THEN 0
                  ELSE IF Unsounded' /\ retries < MaxAlarmRetries THEN retries + 1
                  ELSE retries

(* Movement is reported from an interrupt, between the steps of            *)
(* start_heartbeat too, and between the parsing of a batch and its end;    *)
(* nothing else comes before the end of a batch but other commands and     *)
(* the USB event.                                                          *)
Movement ==
  /\ SensorsStates(MovementLimits)
  /\ UNCHANGED <<current, timer, system, backOff, usb, connects, setting, bounds>>

Acquisition ==
  /\ MainLoop /\ copies = <<>>
  /\ SensorsStates(AtmoLimits)
  /\ UNCHANGED <<current, timer, system, backOff, usb, connects, setting, bounds>>

AlarmCommand ==
  /\ MainLoop
  /\ Parse \/ Execute \/ Refuse
  /\ UNCHANGED <<current, timer, system, backOff, usb, connects, retries, setting, bounds>>

-------------------------------------------------------------------------------
(* state_data_exchange, EVENT_LEAVING_STATE with success *)
ExchangeSucceeded ==
  /\ MainLoop /\ copies = <<>>
  /\ sounding' = {}
  /\ Recovered(system)
  /\ StartHeartbeat(system)
  /\ UNCHANGED <<current, timer, system, usb, connects, enabled, active, copies, beyond,
                 retries, bounds>>

(* the same with an error: adjust_heartbeat_on_error.  On USB the user's   *)
(* interval; while alarms are sounded no change; otherwise every second    *)
(* failure doubles the interval.                                           *)
FailedOnUsb ==
  /\ MainLoop /\ copies = <<>> /\ usb
  /\ StartHeartbeat(system)
  /\ UNCHANGED <<current, timer, system, backOff, usb, connects, alarms, bounds>>

FailedSounding ==
  /\ MainLoop /\ copies = <<>> /\ ~usb
  /\ Unsounded /\ retries <= MaxAlarmRetries
  /\ UNCHANGED <<current, timer, system, backOff, usb, connects, alarms, setting, bounds>>

MutantDoubled(interval) == 2 * interval
Doubled(interval)       == Lower(2 * interval, MaxNoConnectionHeartbeat)

FailedOnBattery ==
  /\ MainLoop /\ copies = <<>> /\ ~usb
  /\ ~(Unsounded /\ retries <= MaxAlarmRetries)
  /\ failed < MaxFailures
  /\ count' = (count + 1) % CountRange
  /\ LET interval == IF count = 0 THEN system ELSE noConnection
         doubled  == count' % 2 = 0 /\ interval < MaxNoConnectionHeartbeat
     IN  /\ noConnection' = IF doubled THEN Doubled(interval) ELSE interval
         /\ IF doubled THEN StartHeartbeat(noConnection') ELSE UNCHANGED setting
  /\ failed' = failed + 1
  /\ base' = IF failed = 0 THEN system ELSE base
  /\ UNCHANGED <<current, timer, system, usb, connects, alarms, bounds>>

-------------------------------------------------------------------------------
Interrupts == MinuteExpired \/ UsbChanged \/ Movement
Main ==
  \/ ReadTimer \/ WriteTimer \/ WritePeriod
  \/ HeartbeatCommand \/ UsbConnected \/ Acquisition \/ AlarmCommand
  \/ ExchangeSucceeded \/ FailedOnUsb \/ FailedSounding \/ FailedOnBattery

Next == Interrupts \/ Main

Spec == Init /\ [][Next]_vars

-------------------------------------------------------------------------------
(* The type invariant; the interval never exceeds the maximum. *)
TypeOK ==
  /\ current \in 0..MaxNoConnectionHeartbeat
  /\ timer \in 0..(TimerRange - 1)
  /\ system \in 0..MaxNoConnectionHeartbeat
  /\ noConnection \in 0..MaxNoConnectionHeartbeat
  /\ count \in 0..(CountRange - 1)
  /\ usb \in BOOLEAN /\ connects \in Nat
  /\ AlarmsTypeOK /\ retries \in 0..MaxAlarmRetries
  /\ setting \in [step : Steps, period : 0..MaxNoConnectionHeartbeat,
                  value : 0..(TimerRange - 1)]
  /\ failed \in Nat /\ base \in 0..MaxNoConnectionHeartbeat
  /\ moved \in Nat /\ minutes \in Nat

(* The interval after 0, 2, 4, ... failures: the first one doubled for each *)
(* pair, up to the maximum.                                                *)
Doublings(first) ==
  LET doubled[n \in 0..(MaxFailures \div 2)] ==
        IF n = 0 THEN first ELSE Lower(2 * doubled[n - 1], MaxNoConnectionHeartbeat)
  IN  doubled

(* What the README says of adjust_heartbeat_on_error, "device heartbeat     *)
(* interval value is doubled until it reaches maximum", in closed form: the *)
(* interval after a number of failures depends on that number only,        *)
(* whatever alarms, minutes and USB events came between them.  The one     *)
(* exception is a user's interval that is the maximum: a device that has   *)
(* not connected since its start then keeps the first period, a minute.    *)
BackOff ==
  MainLoop /\ connects = 0 /\ failed >= 2 /\ base # 0 =>
    \/ current = Doublings(base)[failed \div 2]
    \/ base = MaxNoConnectionHeartbeat /\ current = 1

(* The back-off ends with the USB connection: once the event is handled,   *)
(* and until the cable is pulled, the interval is the user's, although     *)
(* exchanges fail and commands change it meanwhile.                        *)
UsersIntervalOnUsb == usb /\ connects = 0 /\ MainLoop => current = system

(* A limit of a sensor of type NOTIFY_ONCE is notified once: it is not     *)
(* notified again (active) exactly while the samples stay beyond it,       *)
(* although every ALARM command replaces the flags by a copy and an        *)
(* exchange clears those next to them.  alarm_low.active, alarm_high.active *)
(* of check_sensor_alarm_updates.                                          *)
NotifiedOnce == active = beyond

(* An alarm sounds until an exchange ends well, whatever samples and ALARM *)
(* commands come before that; only the alarms of movement, raised while a  *)
(* copy waits, may be forgotten.  clear_sounded_alarms and the sound flags *)
(* of check_sensor_alarm_updates.                                          *)
SoundsUntilReported ==
  [][ExchangeSucceeded \/ sounding \cap NotifyOnce \subseteq sounding']_vars

(* The heartbeat comes within its interval: the timer is below it, or the  *)
(* equality minute_expired_listener waits for is missed.  README, "on user *)
(* defined interval (heartbeat)".                                          *)
HeartbeatWithinInterval == MainLoop /\ current > 0 => timer < current
===============================================================================
