\* Readings, commands and the server against each other and against resets.
SPECIFICATION Spec
CONSTANTS
  QueueSize = 10
  CommandsSize = 3
  ReadingsSize = 2
  SystemSize = 2
  MaxAlarmRetries = 1
  UsbCommands = {"CLEAR", "ACQUISITION", "RELOAD"}
  Fit = 1
  ServerMessages <- Answers
  StartTypes = {"POWER_ON", "WATCHDOG_RESET"}
  Voltages = {2}
  MaxWork = 1
  MaxStored = 3
  Budget <- MovementAndUser
INVARIANTS TypeOK OneToken SentWasPublished AcknowledgedByServer
PROPERTY DeliversReadings
CHECK_DEADLOCK FALSE
