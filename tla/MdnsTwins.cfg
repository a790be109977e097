SPECIFICATION Spec
CONSTANTS
  sta = sta
  eth = eth
  v4 = v4
  s1 = s1
  s2 = s2
  Services = {s1, s2}
  Kind <- MCTwins
  Delegated = {cam}
  SelfHost = self
  Interfaces = {sta, eth}
  v6 = v6
  Protos = {v4}
  V4 = v4
  V6 = v6
  Duplicate <- MCDuplicate
  NoInterface = none
  Slots = {1, 2, 3}
  NoPacket = nopacket
  MaxInputs = 6
INVARIANTS
  ScheduledIsRegistered
CHECK_DEADLOCK FALSE
