SPECIFICATION Spec
CONSTANTS
  Tasks = {t1, t2}
  Items = {x, y, z}
  Instances = {a}
  Hosts = {h1, h2}
  MaxServices = 2
  QueueLen = 2
  MaxCalls = 4
  NoItem = NoItem
  NoName = NoName
INVARIANTS
  TypeOK
  SureCalls
  OwnHost
  WaitersAccounted
PROPERTIES
  ChecksHold
SYMMETRY Symmetry
CHECK_DEADLOCK FALSE
