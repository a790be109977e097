SPECIFICATION Spec
CONSTANTS
  Block = 2
  UINT16_MAX = 5
  MaxBlocks = 3
  Byte <- MCByte
  XorByte <- MCXorByte
  E <- MCE
  D <- MCD
  Inputs <- MCInputs
INVARIANTS
  CipherInv
  ReadsBack
  StaysInBuffer
CHECK_DEADLOCK FALSE
