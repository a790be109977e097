SPECIFICATION Spec
CONSTANTS
  sta = sta
  eth = eth
  v4 = v4
  s1 = s1
  s2 = s2
  Services = {s1, s2}
  Kind <- MCKind
  Delegated = {cam}
  SelfHost = self
  Interfaces = {sta, eth}
  v6 = v6
  Protos = {v4}
  V4 = v4
  V6 = v6
  Duplicate <- MCDuplicate
  NoInterface = none
  Slots = {1, 2, 3}
  NoPacket = nopacket
  MaxInputs = 6
INVARIANTS
  TypeOK
  
  Driven
  ProbesAlone
  ProbeListFits
  ProbedBeforeAnswered
  DuplicateCovered
PROPERTIES
  Settles
CHECK_DEADLOCK FALSE
