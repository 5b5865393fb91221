SPECIFICATION Spec
CONSTANTS
  master = master
  slave = slave
  k1 = k1
  k2 = k2
  i1 = i1
  i2 = i2
  v1 = v1
  v2 = v2
  v3 = v3
  NoConn = NoConn
  NoIndex = NoIndex
  Mixed = Mixed
  Nothing = Nothing
  Nodes = {master, slave}
  Indexes = {i1, i2}
  Values = {v1, v2, v3}
  Size <- MCSize
  Objects <- MCObjects
  Conns = {k1}
  client <- MCClient1
  server <- MCServer1
  SDO_MAX_SIMULTANEOUS_TRANSFERS = 2
  SDO_MAX_LENGTH_TRANSFER = 32
  HasClientEntry = {master, slave}
  Watchdogs = {"armed"}
  MayRefuse = TRUE
  LateAnswers = TRUE
  MaxTransfers = 3
  MaxLosses = 1
  MaxStops = 1
CHECK_DEADLOCK FALSE
INVARIANTS
  OneLinePerPeer
  WatchdogGuardsTransfer
  OnlyWholeRequestedWrites
  NoLineLeaks
