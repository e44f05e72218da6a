\* A stop while a socket is open: the access point or the chip may fail at any
\* time of it.
CONSTANTS
  TcpQueueSize = 10
  OpenSocketRetries = 2
  ReceiveTimeout = 2
  MaxSockets = 2
  ParametersSet = {TRUE}
  UdpParametersSet = {FALSE}
  WifiQueueSize = 10
  ConnectingTimeout = 2
  DisconnectTimeout = 1
  SsidSet = {TRUE}
  Operations = {"SEND", "STOP"}
  MaxFaults = 0
  CountAnew = {"STOP"}
SPECIFICATION WifiSpec
INVARIANTS StopStops
