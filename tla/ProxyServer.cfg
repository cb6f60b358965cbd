SPECIFICATION ServerSpec
CONSTANTS
  a = a
  ra = ra
  x = x
  y = y
  z = z
  k = k
  Absent = Absent
  NULL = NULL
  Argvs <- MCArgvs
  Peers <- MCPeers
  Clients <- MCClients
  Other <- MCOther
  BufSize = 4
  SendRoom = 2
  MaxBytes = 4
  Events <- MCEvents
  Keys <- MCKeys
  KeyOf <- MCKeyOf
  QCapacity = 3
  ContextTimeout = 2
  SocketTimeout = 4
  Datagrams = 3
CHECK_DEADLOCK FALSE
INVARIANTS
  ServerTypeOK
  SettingsAsGiven
  OneArmed
  OneTurnPerBatch
  SocketHoldsLive
  AnswerHasSocket
PROPERTIES
  ProxyNoFalseClose
  ClientIsHeard
  ImplementsRelay
  LosesOnlyToAnother
