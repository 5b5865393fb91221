SPECIFICATION FairSpec
CONSTANTS
  Slaves = {"a", "b", "c"}
  Fields = 2
  Bits = 2
  Ranged = {1}
  Identity <- MCIdentity
  FS_LSS_ID <- MCKnown
  FS_BitChecked <- MCUnknownBits
  InitialId <- MCInitialId
  InitialCob <- MCInitialCob
  NodeIds <- MCNodeIds
  InitialRate = "125K"
  Rates = {"125K", "1M"}
  OtherRates = {"2M"}
  Delays = {1}
  Extras <- MCExtras
  MaxExtras = 1
  MaxResets = 1
  MaxLosses = 1
CHECK_DEADLOCK FALSE
INVARIANTS
  AnswersAreTrue
  NodeIdsDistinct
  OneBitRate
PROPERTIES
  PortComesBack
  EverySlaveGetsANodeId
