SPECIFICATION HistSpec
CONSTANTS
  c1 = c1
  c2 = c2
  c3 = c3
  Owners <- MCOwners
  Active <- MCPair
  Capacity = 4
  Delay <- MCDelay
  MaxTime = 3
  DefaultTimeout = 2
  NULL = NULL
CHECK_DEADLOCK FALSE
INVARIANTS
  TypeOK
  PoolMatchesHeap
  HandlesAreLive
  PoolNeverRunsDry
  NoTimeoutAfterStop
  OrderUpToRestarts
  NoOversleep
PROPERTIES
  SweepReachesVisible
