\* Four commands on a network name of two pages, two addresses and an offset,
\* with resets and failures of the chip between any two steps.
CONSTANTS
  Slots = 6
  Texts = {"SSID"}
  TextValues <- ShortAndLong
  Addresses <- TwoAddresses
  Address <- OneOrOther
  Offsets = {0, 1}
  MaxCommands = 4
  MaxFaults = 2
SPECIFICATION Spec
INVARIANTS ParametersTypeOK ReadBack ConnectedAsConfigured StaticIpVerified
PROPERTIES NoMixture FactoryKept
CHECK_DEADLOCK FALSE
