SPECIFICATION FairBlockSpec
CONSTANTS
  master = master
  slave = slave
  k1 = k1
  i1 = i1
  i2 = i2
  v1 = v1
  v2 = v2
  v3 = v3
  NoConn = NoConn
  NoIndex = NoIndex
  Mixed = Mixed
  Nothing = Nothing
  Nodes = {master, slave}
  Indexes = {i1, i2}
  Values = {v1, v2, v3}
  Conns = {k1}
  Size <- MCSize
  Objects <- MCObjects
  client <- MCClient
  server <- MCServer
  SDO_MAX_SIMULTANEOUS_TRANSFERS = 2
  SDO_MAX_LENGTH_TRANSFER = 32
  SDO_BLOCK_SIZE = 3
  HasClientEntry = {master}
  Watchdogs = {"armed", "none"}
  MayRefuse = FALSE
  LateAnswers = FALSE
  MaxTransfers = 3
  MaxLosses = 1
  MaxStops = 0
CHECK_DEADLOCK FALSE
INVARIANTS
  FinishedMeansServed
  NoHoles
  NothingLeft
PROPERTIES
  BlockTransfersEnd
