\* The WiFi machine with TCP and UDP: every operation, in any order, with a
\* fault of the chip at any time.
CONSTANTS
  TcpQueueSize = 10
  OpenSocketRetries = 2
  ReceiveTimeout = 2
  MaxSockets = 2
  ParametersSet = {TRUE, FALSE}
  UdpParametersSet = {FALSE}
  WifiQueueSize = 10
  ConnectingTimeout = 1
  DisconnectTimeout = 1
  SsidSet = {TRUE, FALSE}
  Operations = {"SEND", "RECEIVE", "STOP", "DISCONNECT", "CLOSE_SOCKET"}
  MaxFaults = 1
  CountAnew = {}
SPECIFICATION WifiSpec
INVARIANTS WifiTypeOK TcpConsistent Truthful SocketsReclaimed TimersAtRest
PROPERTIES OperationEnds
