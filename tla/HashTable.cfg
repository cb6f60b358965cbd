SPECIFICATION HtSpec
CONSTANTS
  k1 = k1
  k2 = k2
  k3 = k3
  k4 = k4
  v1 = v1
  v2 = v2
  Keys <- MCKeys
  Values <- MCValues
  Hash <- MCHash
  InitCapacity = 4
  MaxCapacity = 16
  NULL = NULL
SYMMETRY Symmetry
INVARIANTS
  HtTypeOK
  CountersCover
  SearchEnds
  EntriesReachable
PROPERTIES
  ImplementsMap
