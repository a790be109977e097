SPECIFICATION Spec
CONSTANTS
  c1 = c1
  c2 = c2
  o1 = o1
  o2 = o2
  Conns <- MCConns
  Orders <- MCTwoOrders
  NoConn = NoConn
  NoArg = NoArg
  NoFile = NoFile
  Torn = Torn
  MaxBoots = 1
  FlashFaults = FALSE
  CryptoFaults = FALSE
  NvsFaults = FALSE
INVARIANT SubjectIsOwn
CHECK_DEADLOCK FALSE
