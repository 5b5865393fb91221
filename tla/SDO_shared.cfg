SPECIFICATION FairSpec
CONSTANTS
  master = master
  slave = slave
  k1 = k1
  k2 = k2
  i1 = i1
  i2 = i2
  v1 = v1
  v2 = v2
  v3 = v3
  NoConn = NoConn
  NoIndex = NoIndex
  Mixed = Mixed
  Nothing = Nothing
  Nodes = {master, slave}
  Indexes = {i1, i2}
  Values = {v1, v2, v3}
  Size <- MCSize
  Objects <- MCObjects
  Conns = {k1, k2}
  client <- MCClient
  server <- MCServer
  SDO_MAX_SIMULTANEOUS_TRANSFERS = 2
  SDO_MAX_LENGTH_TRANSFER = 14
  HasClientEntry = {master, slave}
  Watchdogs = {"none"}
  MayRefuse = TRUE
  LateAnswers = FALSE
  MaxTransfers = 2
  MaxLosses = 0
  MaxStops = 0
CHECK_DEADLOCK FALSE
PROPERTIES
  TransfersEnd
