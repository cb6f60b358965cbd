SPECIFICATION Spec
CONSTANTS
  a = a
  b = b
  Peers <- MCPeers
  BufSize = 4
  SendRoom = 2
  MaxBytes = 4
CHECK_DEADLOCK FALSE
INVARIANTS
  StoppedHasContext
