SPECIFICATION Spec
CONSTANTS
  NMT_MAX_NODE_ID = 3
  Nodes = {1, 2}
  Slaves = {2}
  MaxUNS8 = 3
  NoAlarm = NoAlarm
  MAX_NB_TIMER = 3
  ConsumerHeartbeatEntries <- MCEntries
  Defaults <- MCDefaults
  HeartBeatTimes = {0, 2}
  GuardTimes = {0}
  LifeTimeFactors = {1}
  MaxDelay = 1
  Longest = 4
  MaxCommands = 1
  MaxWrites = 1
  MaxLosses = 0
  MaxCrashes = 1
INVARIANTS
  AlarmsMatchHandles
  WatchedOrReported
PROPERTIES
  NoFalseError
