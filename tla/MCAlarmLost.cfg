\* A movement during an exchange.
SPECIFICATION Spec
CONSTANTS
  QueueSize = 10
  CommandsSize = 3
  ReadingsSize = 2
  SystemSize = 1
  MaxAlarmRetries = 2
  UsbCommands = {"READ"}
  Fit = 4
  ServerMessages <- Acknowledgements
  StartTypes = {"POWER_ON"}
  Voltages = {2}
  MaxWork = 1
  MaxStored = 2
  Budget <- TwoMovements
INVARIANT AlarmsReported
CHECK_DEADLOCK FALSE
