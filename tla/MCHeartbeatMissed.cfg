\* A user shortens the interval after some minutes; nothing else happens.
SPECIFICATION UndisturbedSpec
CONSTANTS
  movement = movement
  AtmoLimits = {}
  MovementLimits = {movement}
  MaxBatch = 1
  MaxNoConnectionHeartbeat = 7
  MaxAlarmRetries = 2
  TimerRange = 16
  CountRange = 16
  FirstPeriods = {3}
  Periods = {0, 3, 4}
  MaxUsbChanges = 0
  MaxFailures = 4
  MaxMinutes = 5
INVARIANT HeartbeatWithinInterval
CHECK_DEADLOCK FALSE
