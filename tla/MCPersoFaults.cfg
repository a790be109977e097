SPECIFICATION FairSpec
CONSTANTS
  c1 = c1
  c2 = c2
  o1 = o1
  o2 = o2
  Conns <- MCConns
  Orders <- MCNoOrders
  NoConn = NoConn
  NoArg = NoArg
  NoFile = NoFile
  Torn = Torn
  MaxBoots = 2
  FlashFaults = FALSE
  CryptoFaults = TRUE
  NvsFaults = TRUE
INVARIANTS
  IInv
PROPERTIES
  RequestEnds
  BootEnds
CHECK_DEADLOCK FALSE
