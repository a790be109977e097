SPECIFICATION Spec
CONSTANTS
  c1 = c1
  c2 = c2
  o1 = o1
  o2 = o2
  Conns <- MCOneConn
  Orders <- MCOrders
  NoConn = NoConn
  NoArg = NoArg
  NoFile = NoFile
  Torn = Torn
  MaxBoots = 2
  FlashFaults = FALSE
  CryptoFaults = FALSE
  NvsFaults = FALSE
INVARIANT FirstBootOnly
CHECK_DEADLOCK FALSE
