SPECIFICATION FairSpec
CONSTANTS
  WIFI_RETRY = 5
INVARIANTS
  TypeOK
  StationInv
  AttemptsBounded
  QueueShort
PROPERTIES
  ImplementsLink
  WaitEnds
CHECK_DEADLOCK FALSE
