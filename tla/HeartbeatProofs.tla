--------------------------- MODULE HeartbeatProofs --------------------------
(***************************************************************************)
(* Theorems about the heartbeat, for every interval users ask for, every   *)
(* limit and any number of failures, alarms, minutes and USB changes.      *)
(***************************************************************************)
EXTENDS Heartbeat, EventQueueProofs

USE DEF backOff, alarms, bounds, vars

(* The record of start_heartbeat has its three fields. *)
IsSetting(s) == s = [step |-> s.step, period |-> s.period, value |-> s.value]

(* While start_heartbeat is at work it is already on its way to the user's *)
(* interval: UsersIntervalOnUsb only speaks of the times between.          *)
UsbInv ==
  /\ connects \in Nat /\ IsSetting(setting)
  /\ usb /\ connects = 0 =>
       IF MainLoop THEN current = system
                   ELSE setting.step \in Steps \ {"none"} /\ setting.period = system

(* At power on the main loop runs and the heartbeat timer is set by        *)
(* nobody.                                                                 *)
LEMMA InitUsbInv == Init => UsbInv
BY DEF Init, UsbInv, IsSetting, NotSetting, MainLoop

(* start_heartbeat(system), whoever calls it. *)
LEMMA StartKeeps ==
  ASSUME NEW period, MainLoop, StartHeartbeat(period), current' = current, system' = period,
         connects' \in Nat
  PROVE  UsbInv'
<1> USE DEF IsSetting, NotSetting
<1>1. CASE period = current
  BY <1>1 DEF StartHeartbeat, UsbInv, MainLoop
<1>2. CASE period # current
  <2>1. setting' = [NotSetting EXCEPT !.step = "read", !.period = period]
    BY <1>2 DEF StartHeartbeat
  <2>2. /\ setting'.step = "read" /\ setting'.period = period /\ ~MainLoop'
        /\ IsSetting(setting')
    BY <2>1 DEF NotSetting, MainLoop
  <2> QED
    BY <2>2 DEF UsbInv, Steps
<1> QED
  BY <1>1, <1>2

(* The steps of start_heartbeat. *)
LEMMA SettingKeeps ==
  ASSUME UsbInv, ReadTimer \/ WriteTimer \/ WritePeriod
  PROVE  UsbInv'
<1>1. UNCHANGED <<system, usb, connects>> /\ ~MainLoop
  BY DEF ReadTimer, WriteTimer, WritePeriod, MainLoop, NotSetting
<1>a. IsSetting(setting)
  BY DEF UsbInv
<1>b. IsSetting(setting')
  BY <1>a DEF ReadTimer, WriteTimer, WritePeriod, NotSetting, IsSetting
<1> SUFFICES ASSUME usb', connects' = 0
             PROVE  IF MainLoop' THEN current' = system'
                      ELSE setting'.step \in Steps \ {"none"} /\ setting'.period = system'
  BY <1>1, <1>b DEF UsbInv
<1>2. setting.period = system
  BY <1>1 DEF UsbInv
<1>3. CASE ReadTimer \/ WriteTimer
  <2>1. setting'.step \in {"timer", "period"} /\ setting'.period = setting.period
    BY <1>3, <1>a DEF ReadTimer, WriteTimer, IsSetting
  <2>2. ~MainLoop'
    BY <2>1 DEF MainLoop, NotSetting
  <2> QED
    BY <1>1, <1>2, <2>1, <2>2 DEF Steps
<1>4. CASE WritePeriod
  <2>1. MainLoop' /\ current' = setting.period
    BY <1>4 DEF WritePeriod, MainLoop
  <2> QED
    BY <1>1, <1>2, <2>1
<1> QED
  BY <1>3, <1>4

(* Every step keeps the positions of the USB interrupt.                    *)
LEMMA NextUsbInv == UsbInv /\ [Next]_vars => UsbInv'
<1> SUFFICES ASSUME UsbInv, [Next]_vars PROVE UsbInv'
  OBVIOUS
<1>1. CASE UNCHANGED vars
  BY <1>1 DEF UsbInv, MainLoop
<1>2. CASE MinuteExpired \/ Movement \/ Acquisition \/ AlarmCommand
  BY <1>2 DEF MinuteExpired, Movement, Acquisition, AlarmCommand, UsbInv, MainLoop
<1>3. CASE UsbChanged
  <2>1. usb' = ~usb /\ connects' = IF usb THEN connects ELSE connects + 1
    BY <1>3 DEF UsbChanged
  <2>2. connects' \in Nat /\ (usb' => connects' # 0)
    <3>1. connects \in Nat
      BY DEF UsbInv
    <3>2. CASE usb
      BY <2>1, <3>1, <3>2
    <3>3. CASE ~usb
      <4>1. connects' = connects + 1
        BY <2>1, <3>3
      <4> QED
        BY <3>1, <4>1
    <3> QED
      BY <3>2, <3>3
  <2>3. IsSetting(setting')
    BY <1>3 DEF UsbChanged, UsbInv
  <2> QED
    BY <2>2, <2>3 DEF UsbInv
<1>4. CASE ReadTimer \/ WriteTimer \/ WritePeriod
  BY <1>4, SettingKeeps
<1>5. CASE HeartbeatCommand
  <2>1. PICK period \in Periods : system' = period /\ StartHeartbeat(period)
    BY <1>5 DEF HeartbeatCommand
  <2> QED
    BY <1>5, <2>1, StartKeeps DEF HeartbeatCommand, UsbInv
<1>6. CASE UsbConnected
  <2>1. connects' \in Nat
    BY <1>6 DEF UsbConnected, UsbInv
  <2> QED
    BY <1>6, <2>1, StartKeeps DEF UsbConnected
<1>7. CASE ExchangeSucceeded \/ FailedOnUsb
  BY <1>7, StartKeeps DEF ExchangeSucceeded, FailedOnUsb, UsbInv
<1>8. CASE FailedSounding \/ FailedOnBattery
  <2>1. ~usb /\ UNCHANGED <<usb, connects>>
    BY <1>8 DEF FailedSounding, FailedOnBattery
  <2>2. IsSetting(setting')
    <3>1. setting' = setting \/ \E period : setting' = [NotSetting EXCEPT !.step = "read", !.period = period]
      BY <1>8 DEF FailedSounding, FailedOnBattery, StartHeartbeat
    <3> QED
      BY <3>1 DEF UsbInv, IsSetting, NotSetting
  <2> QED
    BY <2>1, <2>2 DEF UsbInv
<1> QED
  BY <1>1, <1>2, <1>3, <1>4, <1>5, <1>6, <1>7, <1>8 DEF Next, Interrupts, Main

(* On USB the interval is the user's, whatever fails. *)
THEOREM UsersInterval == Spec => []UsersIntervalOnUsb
<1>1. UsbInv => UsersIntervalOnUsb
  BY DEF UsbInv, UsersIntervalOnUsb
<1> QED
  BY <1>1, InitUsbInv, NextUsbInv, PTL DEF Spec

-------------------------------------------------------------------------------
(* The alarms.  The flags of NOTIFY_ONCE limits in a copy that waits are   *)
(* those of the table: until the batch is done there is no sample of these *)
(* sensors and no end of an exchange, and movement has other limits.       *)
Current(copy) ==
  copy.active = active /\ copy.sounding \cap NotifyOnce = sounding \cap NotifyOnce

AlarmsInv ==
  /\ AlarmsTypeOK
  /\ NotifiedOnce
  /\ \A i \in 1..Len(copies) : Current(copies[i])

(* The table of alarms is empty to begin with.                             *)
LEMMA InitAlarmsInv == Init => AlarmsInv
BY DEF Init, AlarmsInit, AlarmsInv, AlarmsTypeOK, NotifiedOnce, Limits

(* The samples of movement touch no flag of a NOTIFY_ONCE limit. *)
LEMMA MovementApart ==
  ASSUME AlarmsInv, NEW crossed \in SUBSET MovementLimits, Check(MovementLimits, crossed)
  PROVE  /\ AlarmsInv'
         /\ sounding \subseteq sounding'
<1> USE AlarmsAssumption DEF AlarmsAssumption, NotifyOnce, Limits
<1>1. active' = active /\ beyond' = beyond
  BY DEF Check, Found, AlarmsInv, AlarmsTypeOK
<1>2. /\ sounding \subseteq sounding' /\ sounding' \subseteq sounding \cup MovementLimits
      /\ UNCHANGED <<enabled, copies>>
  BY DEF Check, SoundingAfter, NewAlarms, Found
<1>3. AlarmsTypeOK' /\ NotifiedOnce'
  BY <1>1, <1>2 DEF AlarmsInv, AlarmsTypeOK, NotifiedOnce
<1>4. sounding' \cap NotifyOnce = sounding \cap NotifyOnce
  BY <1>2
<1>5. \A i \in 1..Len(copies') : Current(copies[i])'
  BY <1>1, <1>2, <1>4 DEF AlarmsInv, Current
<1> QED
  BY <1>2, <1>3, <1>5 DEF AlarmsInv

(* Those of the other sensors do, and no copy waits then. *)
LEMMA AcquisitionKeeps ==
  ASSUME AlarmsInv, copies = <<>>, NEW crossed \in SUBSET AtmoLimits, Check(AtmoLimits, crossed)
  PROVE  /\ AlarmsInv'
         /\ sounding \subseteq sounding'
<1> USE DEF NotifyOnce, Limits
<1>1. /\ active' = beyond' /\ active' \subseteq NotifyOnce
      /\ UNCHANGED <<enabled, copies>>
  BY DEF Check, Found, AlarmsInv, AlarmsTypeOK, NotifiedOnce
<1>2. sounding \subseteq sounding' /\ sounding' \subseteq sounding \cup AtmoLimits
  BY DEF Check, SoundingAfter, NewAlarms, Found
<1>3. AlarmsTypeOK' /\ NotifiedOnce'
  BY <1>1, <1>2 DEF AlarmsInv, AlarmsTypeOK, NotifiedOnce
<1> QED
  BY <1>1, <1>2, <1>3 DEF AlarmsInv

(* A command puts flags in place that are there already, but for movement. *)
LEMMA CommandKeeps ==
  ASSUME AlarmsInv, Parse \/ Execute \/ Refuse
  PROVE  /\ AlarmsInv'
         /\ sounding \cap NotifyOnce \subseteq sounding'
<1>1. CASE Parse
  <2>1. PICK n \in 1..MaxBatch : \E limits \in [1..n -> SUBSET Limits] :
               copies' = [i \in 1..n |-> Copy(limits[i])]
    BY <1>1 DEF Parse
  <2>2. PICK limits \in [1..n -> SUBSET Limits] : copies' = [i \in 1..n |-> Copy(limits[i])]
    BY <2>1
  <2>3. UNCHANGED <<enabled, active, sounding, beyond>>
    BY <1>1 DEF Parse, sensorsAlarms
  <2>4. n \in Nat /\ Len(copies') = n
    BY <2>2, AlarmsAssumption DEF AlarmsAssumption
  <2>5. \A i \in 1..n : /\ Copy(limits[i]) \in [enabled : SUBSET Limits, active : SUBSET NotifyOnce,
                                                sounding : SUBSET Limits]
                        /\ Current(copies[i])'
    BY <2>2, <2>3 DEF Copy, Current, AlarmsInv, AlarmsTypeOK
  <2>6. copies' \in Seq([enabled : SUBSET Limits, active : SUBSET NotifyOnce,
                         sounding : SUBSET Limits])
    BY <2>2, <2>4, <2>5
  <2> QED
    BY <2>3, <2>4, <2>5, <2>6 DEF AlarmsInv, AlarmsTypeOK, NotifiedOnce
<1>2. CASE Execute \/ Refuse
  <2> DEFINE Copies == [enabled : SUBSET Limits, active : SUBSET NotifyOnce, sounding : SUBSET Limits]
  <2>1. copies # <<>> /\ copies' = Tail(copies) /\ beyond' = beyond /\ copies \in Seq(Copies)
    BY <1>2 DEF Execute, Refuse, AlarmsInv, AlarmsTypeOK
  <2>2. /\ copies' \in Seq(Copies) /\ Head(copies) \in Copies /\ Current(Head(copies))
        /\ Len(copies') = Len(copies) - 1 /\ \A i \in 1..Len(copies') : copies'[i] = copies[i + 1]
    <3> HIDE DEF Copies
    <3>1. Len(copies) \in Nat \ {0} /\ copies[1] = Head(copies)
      BY <2>1
    <3>2. /\ copies' \in Seq(Copies) /\ Head(copies) \in Copies
          /\ Len(copies') = Len(copies) - 1 /\ \A i \in 1..Len(copies') : copies'[i] = copies[i + 1]
      BY <2>1
    <3>3. Current(copies[1])
      BY <3>1 DEF AlarmsInv
    <3> QED
      BY <3>1, <3>2, <3>3
  <2>3. /\ enabled' \subseteq Limits /\ sounding' \subseteq Limits /\ active' = active
        /\ sounding' \cap NotifyOnce = sounding \cap NotifyOnce
    BY <1>2, <2>2 DEF Execute, Refuse, sensorsAlarms, Current, AlarmsInv, AlarmsTypeOK
  <2>4. \A i \in 1..Len(copies') : Current(copies[i])'
    BY <2>1, <2>2, <2>3 DEF AlarmsInv, Current
  <2>5. AlarmsTypeOK' /\ NotifiedOnce'
    BY <2>1, <2>2, <2>3 DEF AlarmsInv, AlarmsTypeOK, NotifiedOnce
  <2> QED
    BY <2>3, <2>4, <2>5 DEF AlarmsInv
<1> QED
  BY <1>1, <1>2

(* Every step keeps the table of alarms consistent, and takes a notified   *)
(* limit out of it only when an exchange has succeeded.                    *)
LEMMA NextAlarms ==
  ASSUME AlarmsInv, [Next]_vars
  PROVE  /\ AlarmsInv'
         /\ ExchangeSucceeded \/ sounding \cap NotifyOnce \subseteq sounding'
<1>1. CASE UNCHANGED alarmTable
  BY <1>1 DEF alarmTable, sensorsAlarms, AlarmsInv, AlarmsTypeOK, NotifiedOnce, Current
<1>2. CASE Movement
  <2>1. PICK crossed \in SUBSET MovementLimits : Check(MovementLimits, crossed)
    BY <1>2 DEF Movement, SensorsStates
  <2> QED
    BY <2>1, MovementApart
<1>3. CASE Acquisition
  <2>1. PICK crossed \in SUBSET AtmoLimits : Check(AtmoLimits, crossed)
    BY <1>3 DEF Acquisition, SensorsStates
  <2> QED
    BY <1>3, <2>1, AcquisitionKeeps DEF Acquisition
<1>4. CASE AlarmCommand
  BY <1>4, CommandKeeps DEF AlarmCommand
<1>5. CASE ExchangeSucceeded
  BY <1>5 DEF ExchangeSucceeded, AlarmsInv, AlarmsTypeOK, NotifiedOnce
<1>6. CASE MinuteExpired \/ UsbChanged \/ ReadTimer \/ WriteTimer \/ WritePeriod \/ HeartbeatCommand
           \/ UsbConnected \/ FailedOnUsb \/ FailedSounding \/ FailedOnBattery
  BY <1>1, <1>6 DEF MinuteExpired, UsbChanged, ReadTimer, WriteTimer, WritePeriod, HeartbeatCommand,
                    UsbConnected, FailedOnUsb, FailedSounding, FailedOnBattery
<1>7. CASE UNCHANGED vars
  BY <1>1, <1>7
<1> QED
  BY <1>2, <1>3, <1>4, <1>5, <1>6, <1>7 DEF Next, Interrupts, Main

(* Whatever a limit and the commands are, crossing it is notified once. *)
THEOREM OncePerCrossing == Spec => []NotifiedOnce
<1>1. AlarmsInv => NotifiedOnce
  BY DEF AlarmsInv
<1>2. AlarmsInv /\ [Next]_vars => AlarmsInv'
  BY NextAlarms
<1> QED
  BY <1>1, <1>2, InitAlarmsInv, PTL DEF Spec

(* No sample and no command forgets an alarm of the sensors that are read. *)
THEOREM KeptUntilReported == Spec => SoundsUntilReported
<1>1. AlarmsInv /\ [Next]_vars => AlarmsInv'
  BY NextAlarms
<1>2. AlarmsInv /\ [Next]_vars =>
        [ExchangeSucceeded \/ sounding \cap NotifyOnce \subseteq sounding']_vars
  BY NextAlarms
<1> QED
  BY <1>1, <1>2, InitAlarmsInv, PTL DEF Spec, SoundsUntilReported

-------------------------------------------------------------------------------
(* Types.  The remainder of the timer, also for a period of 0, is a number *)
(* and what start_heartbeat writes is cut to the width of the timer.       *)
Settings ==
  [step : Steps, period : 0..MaxNoConnectionHeartbeat, value : 0..(TimerRange - 1)]

(* What a counter of n values can hold.                                    *)
LEMMA CutToWidth ==
  ASSUME NEW a \in Int, NEW n \in Nat \ {0}
  PROVE  a % n \in 0..(n - 1)
OBVIOUS

(* No setting of the heartbeat is a setting.                               *)
LEMMA NotSettingType == NotSetting \in Settings
<1>1. 0 \in 0..MaxNoConnectionHeartbeat /\ 0 \in 0..(TimerRange - 1)
  BY HeartbeatAssumption DEF HeartbeatAssumption
<1> QED
  BY <1>1 DEF NotSetting, Settings, Steps

(* start_heartbeat begins a setting that is typed.                         *)
LEMMA StartType ==
  ASSUME TypeOK, NEW period \in 0..MaxNoConnectionHeartbeat, StartHeartbeat(period)
  PROVE  setting' \in Settings
<1>1. [NotSetting EXCEPT !.step = "read", !.period = period] \in Settings
  BY NotSettingType DEF Settings, Steps
<1> QED
  BY <1>1 DEF StartHeartbeat, TypeOK, Settings

(* The types hold at power on.                                             *)
LEMMA InitType == Init => TypeOK
<1> SUFFICES ASSUME Init PROVE TypeOK
  OBVIOUS
<1> USE HeartbeatAssumption DEF HeartbeatAssumption
<1>1. setting \in Settings
  BY NotSettingType DEF Init
<1>2. /\ current \in 0..MaxNoConnectionHeartbeat /\ timer \in 0..(TimerRange - 1)
      /\ system \in 0..MaxNoConnectionHeartbeat /\ noConnection \in 0..MaxNoConnectionHeartbeat
      /\ count \in 0..(CountRange - 1) /\ retries \in 0..MaxAlarmRetries
      /\ base \in 0..MaxNoConnectionHeartbeat
  BY DEF Init, Lower
<1>3. AlarmsTypeOK
  BY InitAlarmsInv DEF AlarmsInv
<1> QED
  BY <1>1, <1>2, <1>3 DEF Init, TypeOK, Settings

(* The steps of start_heartbeat. *)
LEMMA SettingType ==
  ASSUME TypeOK, ReadTimer \/ WriteTimer \/ WritePeriod
  PROVE  TypeOK'
<1> USE HeartbeatAssumption DEF HeartbeatAssumption
<1>0. setting \in Settings /\ TimerRange \in Nat \ {0}
  BY DEF TypeOK, Settings
<1>1. CASE ReadTimer
  <2>1. Remainder(timer, setting.period) \in Int
    <3>1. setting.period \in Nat /\ timer \in Nat
      BY <1>0 DEF Settings, TypeOK
    <3>2. setting.period # 0 => timer % setting.period \in Int
      BY <3>1
    <3> QED
      BY <3>1, <3>2 DEF Remainder
  <2>2. (setting.period - Remainder(timer, setting.period)) % TimerRange \in 0..(TimerRange - 1)
    <3>1. setting.period - Remainder(timer, setting.period) \in Int
      BY <1>0, <2>1 DEF Settings
    <3> QED
      BY <1>0, <3>1, CutToWidth
  <2>3. setting' \in Settings
    <3> DEFINE cut == (setting.period - Remainder(timer, setting.period)) % TimerRange
    <3>1. /\ [setting EXCEPT !.step = "period"] \in Settings
          /\ \A value \in 0..(TimerRange - 1) :
               [setting EXCEPT !.step = "timer", !.value = value] \in Settings
      BY <1>0 DEF Settings, Steps
    <3>2. setting' \in {[setting EXCEPT !.step = "period"],
                        [setting EXCEPT !.step = "timer", !.value = cut]}
      BY <1>1 DEF ReadTimer
    <3> HIDE DEF cut
    <3>3. cut \in 0..(TimerRange - 1)
      BY <2>2 DEF cut
    <3> QED
      BY <3>1, <3>2, <3>3
  <2> QED
    BY <1>1, <2>3 DEF ReadTimer, TypeOK, Settings, alarmTable, sensorsAlarms, AlarmsTypeOK
<1>2. CASE WriteTimer
  <2>1. setting.value \in 0..(TimerRange - 1) /\ 0 \in 0..(TimerRange - 1)
    BY <1>0 DEF Settings
  <2>2. setting' \in Settings
    BY <1>0, <1>2, <2>1 DEF WriteTimer, Settings, Steps
  <2> QED
    BY <1>2, <2>1, <2>2 DEF WriteTimer, TypeOK, Settings, alarmTable, sensorsAlarms, AlarmsTypeOK
<1>3. CASE WritePeriod
  <2>1. setting.period \in 0..MaxNoConnectionHeartbeat
    BY <1>0 DEF Settings
  <2> QED
    BY <1>3, <2>1, NotSettingType
    DEF WritePeriod, TypeOK, Settings, alarmTable, sensorsAlarms, AlarmsTypeOK
<1> QED
  BY <1>1, <1>2, <1>3

(* Every step keeps the types.                                             *)
LEMMA NextType == AlarmsInv /\ TypeOK /\ [Next]_vars => TypeOK'
<1> SUFFICES ASSUME AlarmsInv, TypeOK, [Next]_vars PROVE TypeOK'
  OBVIOUS
<1> USE HeartbeatAssumption DEF HeartbeatAssumption
<1>1. AlarmsTypeOK'
  BY NextAlarms DEF AlarmsInv
<1>2. CASE UNCHANGED vars
  BY <1>1, <1>2 DEF TypeOK
<1>3. CASE MinuteExpired
  <2>1. (timer + 1) % TimerRange \in 0..(TimerRange - 1)
    <3>1. timer + 1 \in Int /\ TimerRange \in Nat \ {0}
      BY DEF TypeOK
    <3> QED
      BY <3>1, CutToWidth
  <2>2. timer' \in 0..(TimerRange - 1) /\ minutes' \in Nat
    BY <1>3, <2>1 DEF MinuteExpired, TypeOK
  <2> QED
    BY <1>1, <1>3, <2>2 DEF MinuteExpired, TypeOK
<1>4. CASE UsbChanged
  BY <1>1, <1>4 DEF UsbChanged, TypeOK
<1>5. CASE Movement \/ Acquisition
  <2>1. retries' \in {0, retries} \/ (retries' = retries + 1 /\ retries < MaxAlarmRetries)
    BY <1>5 DEF Movement, Acquisition, SensorsStates
  <2>2. retries' \in 0..MaxAlarmRetries
    BY <2>1 DEF TypeOK
  <2> QED
    BY <1>1, <1>5, <2>2 DEF Movement, Acquisition, TypeOK
<1>6. CASE ReadTimer \/ WriteTimer \/ WritePeriod
  BY <1>6, SettingType
<1>7. CASE HeartbeatCommand
  <2>1. PICK period \in Periods : /\ period <= MaxNoConnectionHeartbeat
                                  /\ system' = period /\ StartHeartbeat(period)
    BY <1>7 DEF HeartbeatCommand
  <2>2. period \in 0..MaxNoConnectionHeartbeat
    BY <2>1
  <2>3. setting' \in Settings
    BY <2>1, <2>2, StartType
  <2> QED
    BY <1>1, <1>7, <2>1, <2>2, <2>3 DEF HeartbeatCommand, TypeOK, Settings
<1>8. CASE UsbConnected \/ ExchangeSucceeded \/ FailedOnUsb
  <2>1. setting' \in Settings
    BY <1>8, StartType DEF UsbConnected, ExchangeSucceeded, FailedOnUsb, TypeOK
  <2>2. connects' \in Nat
    BY <1>8 DEF UsbConnected, ExchangeSucceeded, FailedOnUsb, TypeOK
  <2>3. /\ count' \in 0..(CountRange - 1) /\ failed' \in Nat
        /\ base' \in 0..MaxNoConnectionHeartbeat /\ noConnection' \in 0..MaxNoConnectionHeartbeat
    <3>1. CASE Recovered(system)
      BY <3>1 DEF Recovered, TypeOK
    <3>2. CASE UNCHANGED backOff
      BY <3>2 DEF TypeOK
    <3> QED
      BY <1>8, <3>1, <3>2 DEF UsbConnected, ExchangeSucceeded, FailedOnUsb
  <2>4. UNCHANGED <<current, timer, system, usb, retries, bounds>>
    BY <1>8 DEF UsbConnected, ExchangeSucceeded, FailedOnUsb
  <2> QED
    BY <1>1, <2>1, <2>2, <2>3, <2>4 DEF TypeOK, Settings
<1>9. CASE AlarmCommand \/ FailedSounding
  BY <1>1, <1>9 DEF AlarmCommand, FailedSounding, TypeOK
<1>10. CASE FailedOnBattery
  <2>1. noConnection' \in 0..MaxNoConnectionHeartbeat
    BY <1>10 DEF FailedOnBattery, Doubled, Lower, TypeOK
  <2>2. setting' \in Settings
    BY <1>10, <2>1, StartType DEF FailedOnBattery, TypeOK, Settings
  <2>3. count' \in 0..(CountRange - 1)
    <3>1. count + 1 \in Int /\ CountRange \in Nat \ {0}
      BY DEF TypeOK
    <3> QED
      BY <1>10, <3>1, CutToWidth DEF FailedOnBattery
  <2>4. base' \in 0..MaxNoConnectionHeartbeat /\ failed' \in Nat
    BY <1>10 DEF FailedOnBattery, TypeOK
  <2> QED
    BY <1>1, <1>10, <2>1, <2>2, <2>3, <2>4 DEF FailedOnBattery, TypeOK, Settings
<1> QED
  BY <1>2, <1>3, <1>4, <1>5, <1>6, <1>7, <1>8, <1>9, <1>10 DEF Next, Interrupts, Main

(* No interval, timer or count leaves its width, and no interval exceeds   *)
(* the maximum, however often it is doubled.                               *)
THEOREM IntervalsBounded == Spec => []TypeOK
<1>1. AlarmsInv /\ [Next]_vars => AlarmsInv'
  BY NextAlarms
<1> QED
  BY <1>1, InitType, NextType, InitAlarmsInv, PTL DEF Spec

-------------------------------------------------------------------------------
(***************************************************************************)
(* The back-off in closed form.                                            *)
(***************************************************************************)

(* The recursive function of Doublings exists, and computes what it says.  *)
LEMMA DoublingsExist ==
  ASSUME NEW first \in 0..MaxNoConnectionHeartbeat
  PROVE  \E g \in [0..(MaxFailures \div 2) -> 0..MaxNoConnectionHeartbeat] :
           g = [n \in 0..(MaxFailures \div 2) |->
                  IF n = 0 THEN first ELSE Lower(2 * g[n - 1], MaxNoConnectionHeartbeat)]
<1> USE HeartbeatAssumption DEF HeartbeatAssumption
<1> DEFINE max == MaxNoConnectionHeartbeat
           top == MaxFailures \div 2
           Is(g, n) == g = [i \in 0..n |-> IF i = 0 THEN first ELSE Lower(2 * g[i - 1], max)]
           S == {n \in 0..top : \E g \in [0..n -> 0..max] : Is(g, n)}
<1>1. 0 \in S
  <2>1. 0 \in 0..top /\ 0..0 = {0}
    OBVIOUS
  <2>2. [i \in 0..0 |-> first] \in [0..0 -> 0..max]
    OBVIOUS
  <2>3. Is([i \in 0..0 |-> first], 0)
    BY <2>1
  <2> QED
    BY <2>1, <2>2, <2>3
<1>2. ASSUME NEW n \in 0..top, n < top, n \in S PROVE n + 1 \in S
  <2>1. PICK g \in [0..n -> 0..max] : Is(g, n)
    BY <1>2
  <2> DEFINE h == [i \in 0..(n + 1) |-> IF i = n + 1 THEN Lower(2 * g[n], max) ELSE g[i]]
  <2>2. g[n] \in 0..max
    OBVIOUS
  <2>3. Lower(2 * g[n], max) \in 0..max
    BY <2>2 DEF Lower
  <2>4. h \in [0..(n + 1) -> 0..max]
    BY <2>3
  <2>5. ASSUME NEW i \in 0..(n + 1)
        PROVE  h[i] = IF i = 0 THEN first ELSE Lower(2 * h[i - 1], max)
    <3>1. CASE i = n + 1
      <4>1. h[i] = Lower(2 * g[n], max) /\ i - 1 = n /\ n # n + 1 /\ n \in 0..(n + 1) /\ i # 0
        BY <3>1
      <4>2. h[n] = g[n]
        BY <4>1
      <4> QED
        BY <4>1, <4>2
    <3>2. CASE i # n + 1
      <4>1. i \in 0..n /\ h[i] = g[i]
        BY <3>2
      <4>2. g[i] = IF i = 0 THEN first ELSE Lower(2 * g[i - 1], max)
        BY <2>1, <4>1
      <4>3. i # 0 => i - 1 \in 0..(n + 1) /\ i - 1 # n + 1
        BY <4>1
      <4>4. i # 0 => h[i - 1] = g[i - 1]
        BY <4>3
      <4> QED
        BY <4>1, <4>2, <4>4
    <3> QED
      BY <3>1, <3>2
  <2>6. Is(h, n + 1)
    <3> HIDE DEF h
    <3> QED
      BY <2>4, <2>5
  <2>7. n + 1 \in 0..top
    BY <1>2
  <2> QED
    BY <2>4, <2>6, <2>7
<1>3. top \in Nat /\ top \in 0..top
  OBVIOUS
<1>4. top \in S
  <2> HIDE DEF S, top
  <2> QED
    BY <1>1, <1>2, <1>3, UpTo
<1> QED
  BY <1>4

(* The recursive function is its definition at each number of failures.    *)
LEMMA DoublingsStep ==
  ASSUME NEW first \in 0..MaxNoConnectionHeartbeat
  PROVE  /\ Doublings(first)[0] = first
         /\ \A n \in 0..(MaxFailures \div 2) : n # 0 =>
              Doublings(first)[n] = Lower(2 * Doublings(first)[n - 1], MaxNoConnectionHeartbeat)
<1> DEFINE d == Doublings(first)
<1>1. d = [n \in 0..(MaxFailures \div 2) |->
             IF n = 0 THEN first ELSE Lower(2 * d[n - 1], MaxNoConnectionHeartbeat)]
  BY DoublingsExist DEF Doublings
<1>2. 0 \in 0..(MaxFailures \div 2)
  BY HeartbeatAssumption DEF HeartbeatAssumption
<1> HIDE DEF d
<1> QED
  BY <1>1, <1>2 DEF d

(* The period start_heartbeat is on its way to, if it is at work.          *)
Heading == IF MainLoop THEN current ELSE setting.period

(* The count is the number of failures, no_connection_heartbeat the first  *)
(* interval doubled for every two of them, and that is where the interval  *)
(* heads once there were two; before the first failure it is the user's,   *)
(* or the first minute.  The user's interval does not change meanwhile, or *)
(* there is no first interval (base); on USB there are no failures.        *)
BackOffInv ==
  /\ count = failed /\ failed \in 0..MaxFailures
  /\ failed = 0 => base = 0 /\ Heading \in {system, 1}
  /\ usb /\ connects = 0 => failed = 0
  /\ base # 0 =>
       /\ system = base
       /\ noConnection = Doublings(base)[failed \div 2]
       /\ base = MaxNoConnectionHeartbeat => noConnection = MaxNoConnectionHeartbeat
  /\ base # 0 /\ connects = 0 =>
       IF base = MaxNoConnectionHeartbeat THEN Heading \in {MaxNoConnectionHeartbeat, 1}
       ELSE failed >= 2 => Heading = noConnection

(* At power on there is no back-off.                                       *)
LEMMA InitBackOff == Init => BackOffInv
BY HeartbeatAssumption DEF HeartbeatAssumption, Init, BackOffInv, Heading, MainLoop

(* Whoever starts the heartbeat heads for the period it asked for.         *)
LEMMA StartHeads ==
  ASSUME TypeOK, MainLoop, NEW period, StartHeartbeat(period), current' = current
  PROVE  Heading' = period
<1>1. CASE period = current
  BY <1>1 DEF StartHeartbeat, Heading, MainLoop
<1>2. CASE period # current
  <2>1. setting' = [NotSetting EXCEPT !.step = "read", !.period = period]
    BY <1>2 DEF StartHeartbeat
  <2>2. setting'.step = "read" /\ setting'.period = period /\ NotSetting.step # "read"
    BY <2>1 DEF NotSetting
  <2>3. ~MainLoop'
    BY <2>2 DEF MainLoop
  <2> QED
    BY <2>2, <2>3 DEF Heading
<1> QED
  BY <1>1, <1>2

(* The steps of a setting do not change what it heads for.                 *)
LEMMA SettingHeads ==
  ASSUME TypeOK, ReadTimer \/ WriteTimer \/ WritePeriod
  PROVE  Heading' = Heading
<1>1. setting \in Settings /\ ~MainLoop
  BY DEF TypeOK, Settings, ReadTimer, WriteTimer, WritePeriod, MainLoop, NotSetting
<1>2. CASE ReadTimer \/ WriteTimer
  <2>1. setting'.step \in {"timer", "period"} /\ setting'.period = setting.period
    BY <1>1, <1>2 DEF ReadTimer, WriteTimer, Settings
  <2>2. ~MainLoop'
    BY <2>1 DEF MainLoop, NotSetting
  <2> QED
    BY <1>1, <2>1, <2>2 DEF Heading
<1>3. CASE WritePeriod
  <2>1. MainLoop' /\ current' = setting.period
    BY <1>3 DEF WritePeriod, MainLoop
  <2> QED
    BY <1>1, <2>1 DEF Heading
<1> QED
  BY <1>2, <1>3

(* Every second failure doubles: the step of the closed form. *)
LEMMA FailureKeeps ==
  ASSUME TypeOK, BackOffInv, MaxFailures < CountRange, FailedOnBattery
  PROVE  BackOffInv'
<1> USE HeartbeatAssumption DEF HeartbeatAssumption
<1> DEFINE max == MaxNoConnectionHeartbeat
           interval == IF count = 0 THEN system ELSE noConnection
           doubled == count' % 2 = 0 /\ interval < max
<1>1. /\ MainLoop /\ ~usb /\ failed < MaxFailures /\ failed' = failed + 1
      /\ count' = (count + 1) % CountRange
      /\ noConnection' = IF doubled THEN Doubled(interval) ELSE interval
      /\ IF doubled THEN StartHeartbeat(noConnection') ELSE UNCHANGED setting
      /\ base' = IF failed = 0 THEN system ELSE base
      /\ UNCHANGED <<current, system, usb, connects>>
  BY DEF FailedOnBattery
<1>2. /\ failed \in Nat /\ count = failed /\ count' = failed + 1 /\ failed' \in 0..MaxFailures
      /\ system \in 0..max /\ noConnection \in 0..max /\ base \in 0..max /\ max \in Nat
      /\ interval \in 0..max
  <2>1. failed \in Nat /\ count = failed /\ failed + 1 < CountRange
    BY <1>1 DEF BackOffInv, TypeOK
  <2>2. (failed + 1) % CountRange = failed + 1
    BY <2>1
  <2> QED
    BY <1>1, <2>1, <2>2 DEF TypeOK
<1>3. Heading' = IF doubled THEN noConnection' ELSE Heading
  <2>1. CASE doubled
    BY <1>1, <2>1, StartHeads
  <2>2. CASE ~doubled
    BY <1>1, <2>2 DEF Heading, MainLoop
  <2> QED
    BY <2>1, <2>2
<1>4. doubled => noConnection' = IF 2 * interval < max THEN 2 * interval ELSE max
  BY <1>1 DEF Doubled, Lower
<1> SUFFICES ASSUME base' # 0
             PROVE  /\ system' = base'
                    /\ noConnection' = Doublings(base')[failed' \div 2]
                    /\ base' = max => noConnection' = max
                    /\ connects' = 0 =>
                         IF base' = max THEN Heading' \in {max, 1}
                         ELSE failed' >= 2 => Heading' = noConnection'
  <2>1. ~usb' /\ failed' # 0 /\ count' = failed' /\ failed' \in 0..MaxFailures
    BY <1>1, <1>2
  <2> QED
    BY <2>1 DEF BackOffInv
<1>5. CASE failed = 0
  <2>1. /\ failed' = 1 /\ 1 \div 2 = 0 /\ ~doubled /\ interval = system
    BY <1>1, <1>2, <1>5
  <2>2. Doublings(system)[0] = system
    BY <1>2, DoublingsStep
  <2>3. base' = system /\ noConnection' = system /\ Heading' = Heading /\ Heading \in {system, 1}
    BY <1>1, <1>3, <1>5, <2>1 DEF BackOffInv
  <2> HIDE DEF interval, doubled
  <2> QED
    BY <1>1, <2>1, <2>2, <2>3
<1>6. CASE failed # 0
  <2>1. /\ base' = base /\ base # 0 /\ interval = noConnection /\ system = base
        /\ noConnection = Doublings(base)[failed \div 2]
        /\ base = max => noConnection = max
        /\ connects = 0 => IF base = max THEN Heading \in {max, 1}
                           ELSE failed >= 2 => Heading = noConnection
    BY <1>1, <1>2, <1>6 DEF BackOffInv
  <2>2. CASE failed % 2 = 0
    <3>1. /\ (failed + 1) % 2 # 0 /\ (failed + 1) \div 2 = failed \div 2 /\ failed >= 2
      BY <1>2, <1>6, <2>2
    <3>2. ~doubled /\ noConnection' = noConnection /\ Heading' = Heading
      BY <1>1, <1>2, <1>3, <2>1, <3>1
    <3> HIDE DEF interval, doubled
    <3> QED
      BY <1>1, <1>2, <2>1, <3>1, <3>2
  <2>3. CASE failed % 2 # 0
    <3>1. /\ (failed + 1) % 2 = 0 /\ (failed + 1) \div 2 = (failed \div 2) + 1
          /\ (failed + 1) \div 2 \in 0..(MaxFailures \div 2) /\ failed \div 2 \in Nat
      BY <1>1, <1>2, <2>3
    <3>2. Doublings(base)[(failed + 1) \div 2] = Lower(2 * noConnection, max)
      <4>1. ((failed + 1) \div 2) - 1 = failed \div 2 /\ (failed + 1) \div 2 # 0
        BY <3>1
      <4> QED
        BY <1>2, <2>1, <3>1, <4>1, DoublingsStep
    <3>3. noConnection' = Lower(2 * noConnection, max)
      <4>1. CASE noConnection < max
        BY <1>1, <1>2, <2>1, <3>1, <4>1 DEF Doubled
      <4>2. CASE ~(noConnection < max)
        <5>1. noConnection = max /\ noConnection' = noConnection /\ ~(2 * max < max)
          BY <1>1, <1>2, <2>1, <4>2
        <5> QED
          BY <5>1 DEF Lower
      <4> QED
        BY <4>1, <4>2
    <3>4. base = max => noConnection' = max /\ ~doubled
      BY <1>2, <2>1, <3>3 DEF Lower
    <3>5. failed = 1 => noConnection = base
      <4>1. 1 \div 2 = 0 /\ Doublings(base)[0] = base
        BY <1>2, DoublingsStep
      <4> QED
        BY <2>1, <4>1
    <3>6. base # max /\ connects = 0 => Heading' = noConnection'
      <4>1. CASE doubled
        BY <1>3, <4>1
      <4>2. CASE ~doubled
        <5>1. noConnection = max
          BY <1>2, <2>1, <3>1, <4>2
        <5>2. base # max => failed >= 2
          BY <1>2, <1>6, <3>5, <5>1
        <5>3. noConnection' = noConnection /\ Heading' = Heading
          BY <1>1, <1>3, <2>1, <4>2
        <5> HIDE DEF interval, doubled
        <5> QED
          BY <2>1, <5>2, <5>3
      <4> QED
        BY <4>1, <4>2
    <3>7. base = max => Heading' = Heading
      BY <1>3, <3>4
    <3> HIDE DEF interval, doubled
    <3> QED
      BY <1>1, <1>2, <2>1, <3>2, <3>3, <3>4, <3>6, <3>7
  <2> QED
    BY <2>2, <2>3
<1> QED
  BY <1>5, <1>6

(* Every step keeps the period the one that the failures so far ask for.   *)
LEMMA NextBackOff ==
  ASSUME TypeOK, BackOffInv, MaxFailures < CountRange, [Next]_vars
  PROVE  BackOffInv'
<1> USE HeartbeatAssumption DEF HeartbeatAssumption
<1>1. CASE Heading' = Heading /\ UNCHANGED <<system, backOff, usb, connects>>
  BY <1>1 DEF BackOffInv
<1>2. CASE UNCHANGED vars \/ MinuteExpired \/ Movement \/ Acquisition \/ AlarmCommand \/ FailedSounding
  <2>1. UNCHANGED <<current, setting, system, backOff, usb, connects>>
    BY <1>2 DEF MinuteExpired, Movement, Acquisition, AlarmCommand, FailedSounding
  <2> QED
    BY <1>1, <2>1 DEF Heading, MainLoop
<1>3. CASE ReadTimer \/ WriteTimer \/ WritePeriod
  BY <1>1, <1>3, SettingHeads DEF ReadTimer, WriteTimer, WritePeriod
<1>4. CASE UsbChanged
  <2>1. /\ Heading' = Heading /\ UNCHANGED <<system, backOff>> /\ usb' = ~usb
        /\ connects' = IF usb THEN connects ELSE connects + 1
        /\ connects \in Nat
    BY <1>4 DEF UsbChanged, Heading, MainLoop, TypeOK
  <2>2. connects' = 0 => usb /\ connects = 0 /\ ~usb'
    <3>1. CASE usb
      BY <2>1, <3>1
    <3>2. CASE ~usb
      BY <2>1, <3>2
    <3> QED
      BY <3>1, <3>2
  <2> QED
    BY <2>1, <2>2 DEF BackOffInv
<1>5. CASE HeartbeatCommand
  <2>1. Heading' = system' /\ base' = 0 /\ UNCHANGED <<count, failed, usb, connects>>
    BY <1>5, StartHeads DEF HeartbeatCommand
  <2> QED
    BY <2>1 DEF BackOffInv
<1>6. CASE UsbConnected \/ ExchangeSucceeded
  <2>1. Heading' = system' /\ base' = 0 /\ count' = 0 /\ failed' = 0
    BY <1>6, StartHeads DEF UsbConnected, ExchangeSucceeded, Recovered
  <2> QED
    BY <2>1 DEF BackOffInv
<1>7. CASE FailedOnUsb
  <2>1. Heading' = system' /\ usb /\ UNCHANGED <<system, backOff, usb, connects>>
    BY <1>7, StartHeads DEF FailedOnUsb
  <2>2. CASE connects = 0
    BY <2>1, <2>2 DEF BackOffInv
  <2>3. CASE connects # 0
    BY <2>1, <2>3 DEF BackOffInv
  <2> QED
    BY <2>2, <2>3
<1>8. CASE FailedOnBattery
  BY <1>8, FailureKeeps
<1> QED
  BY <1>2, <1>3, <1>4, <1>5, <1>6, <1>7, <1>8 DEF Next, Interrupts, Main

(* The interval after any number of failures that the count can hold is    *)
(* the closed form, for every first interval and every maximum, wherever   *)
(* alarms, minutes, USB events and commands come in between.               *)
THEOREM BackOffInClosedForm ==
  ASSUME MaxFailures < CountRange
  PROVE  Spec => []BackOff
<1>1. AlarmsInv /\ [Next]_vars => AlarmsInv'
  BY NextAlarms
<1>2. TypeOK /\ BackOffInv /\ [Next]_vars => BackOffInv'
  BY NextBackOff
<1>3. TypeOK /\ BackOffInv => BackOff
  BY HeartbeatAssumption DEF HeartbeatAssumption, TypeOK, BackOffInv, BackOff, Heading
<1> QED
  BY <1>1, <1>2, <1>3, InitType, NextType, InitAlarmsInv, InitBackOff, PTL DEF Spec
===============================================================================
