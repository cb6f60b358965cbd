SPECIFICATION UdpSpec
CONSTANTS
  a = a
  b = b
  c = c
  d = d
  Events <- MCPair
  Keys <- MCPair
  KeyOf <- MCKeyOf
  QCapacity = 2
  BufSize = 3
  Lengths <- MCLengths
  NULL = NULL
CHECK_DEADLOCK FALSE
SYMMETRY Symmetry
INVARIANTS
  ReadBufferHasRoom
