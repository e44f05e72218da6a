\* Everything that is asked for comes to an end.
SPECIFICATION FairSpec
CONSTANTS
  QueueSize = 3
  CommandsSize = 3
  ReadingsSize = 1
  SystemSize = 1
  MaxAlarmRetries = 2
  UsbCommands = {"NOW"}
  Fit = 1
  ServerMessages <- Acknowledgements
  StartTypes = {"POWER_ON"}
  Voltages = {1, 2}
  MaxWork = 1
  MaxStored = 1
  Budget <- UsbSession
INVARIANT QuietOnLowPower
PROPERTIES ExchangeTerminates CommandsAnswered AlarmStartsExchange
CHECK_DEADLOCK FALSE
