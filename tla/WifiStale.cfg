SPECIFICATION Spec
CONSTANTS
  WIFI_RETRY = 5
PROPERTIES
  ConnectedIsEstablished
CHECK_DEADLOCK FALSE
