\* Back-off, alarms and their commands, minutes and USB against each other.
SPECIFICATION Spec
CONSTANTS
  temperature = temperature
  movement = movement
  AtmoLimits = {temperature}
  MovementLimits = {movement}
  MaxBatch = 2
  MaxNoConnectionHeartbeat = 3
  MaxAlarmRetries = 1
  TimerRange = 5
  CountRange = 8
  FirstPeriods = {1, 3}
  Periods = {0, 1, 4}
  MaxUsbChanges = 2
  MaxFailures = 4
  MaxMinutes = 1
INVARIANTS TypeOK BackOff UsersIntervalOnUsb NotifiedOnce
PROPERTY SoundsUntilReported
CHECK_DEADLOCK FALSE
