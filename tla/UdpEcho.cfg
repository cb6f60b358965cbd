SPECIFICATION UdpSpec
CONSTANTS
  a = a
  b = b
  c = c
  d = d
  Events <- MCPeers
  Keys <- MCPeers
  KeyOf <- MCKeyOf
  QCapacity = 3
  BufSize = 8
  Lengths <- MCWithEmpty
  NULL = NULL
CHECK_DEADLOCK FALSE
SYMMETRY Symmetry
INVARIANTS
  UdpTypeOK
  QueuedAreLive
  OneDirection
  WriteChecksHold
  QueuePacked
  HeadServesWaiting
PROPERTIES
  DeafOnlyIfRefused
  StaleOnlyFromTail
