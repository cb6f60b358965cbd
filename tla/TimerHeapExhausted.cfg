SPECIFICATION Spec
CONSTANTS
  c1 = c1
  c2 = c2
  Owners <- MCPair
  Active <- MCPair
  Capacity = 4
  Delay <- MCDelay
  MaxTime = 3
  NULL = NULL
CHECK_DEADLOCK FALSE
INVARIANTS
  TimerAvailable
