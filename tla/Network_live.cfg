SPECIFICATION FairSpec
CONSTANTS
  NMT_MAX_NODE_ID = 3
  Nodes = {1, 2}
  Slaves = {2}
  MaxUNS8 = 3
  NoAlarm = NoAlarm
  MAX_NB_TIMER = 3
  ConsumerHeartbeatEntries <- MCEntries
  Defaults <- MCDefaults
  HeartBeatTimes = {}
  GuardTimes = {}
  LifeTimeFactors = {}
  MaxDelay = 0
  Longest = 0
  MaxCommands = 1
  MaxWrites = 0
  MaxLosses = 1
  MaxCrashes = 1
PROPERTIES
  SilenceIsNoticed
  TableGetsRight
