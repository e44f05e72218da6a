\* Three exchanges with a broker that may send, answer late or disappear at any
\* time.
CONSTANTS
  MqttQueueSize = 10
  MqttParameters = {TRUE, FALSE}
  Subacks = {"SUBACK", "WRONG_SUBACK"}
  MaxUnasked = 2
  Unasked = {"COMMAND", "PUBREC", "PUBACK"}
  MaxLosses = 2
  MaxExchanges = 3
SPECIFICATION MqttSpec
INVARIANTS MqttTypeOK ConnectFirst ErrorsDisconnect CountsSent SuccessMeansArrived
PROPERTIES EndsUnlessMismatched
CHECK_DEADLOCK FALSE
