SPECIFICATION Spec
CONSTANTS
  NoAlarm = NoAlarm
  NoValue = NoValue
  Values = {v1, v2}
  NbTPDO = 1
  Buildable = {1}
  MaxUNS8 = 3
  MAX_NB_TIMER = 3
  Types = {0, 2, 252, 254}
  InhibitTimes = {0, 2}
  EventTimes = {0, 1}
  SyncPeriods = {1}
  Longest = 2
  MaxWrites = 1
  MaxLosses = 0
INVARIANT RequestIsAnsweredByPDO
