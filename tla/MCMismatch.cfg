\* A broker that once answers SUBSCRIBE with the id of another message.
CONSTANTS
  MqttQueueSize = 10
  MqttParameters = {TRUE}
  Subacks = {"WRONG_SUBACK"}
  MaxUnasked = 0
  Unasked = {}
  MaxLosses = 0
  MaxExchanges = 2
SPECIFICATION MqttSpec
PROPERTIES EveryOperationEnds
CHECK_DEADLOCK FALSE
