SPECIFICATION EndlessSpec
CONSTANTS
  c1 = c1
  c2 = c2
  c3 = c3
  Owners <- MCPair
  Active <- MCPair
  Capacity = 3
  Delay <- MCDelay
  MaxTime = 3
  DefaultTimeout = 2
  NULL = NULL
CHECK_DEADLOCK FALSE
INVARIANTS
  LoopTypeOK
PROPERTIES
  SilentContextsEnd
