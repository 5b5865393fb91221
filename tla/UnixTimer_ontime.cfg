SPECIFICATION FairSpec
CONSTANTS
  u1 = u1
  u2 = u2
  init = init
  none = none
  Users <- MCUsers
  InitCallback = init
  NoCallback = none
  Callbacks <- MCCallbacks
  MAX_NB_TIMER = 3
  TIMEVAL_MAX = 31
  CanOpened = TRUE
  Races = FALSE
  Values <- LongValues
  Periods <- BothKinds
  MaxThreads = 2
  MaxLag = 0
  MaxIdle = 1
  MaxElapsed = 5
  UNS32_MAX = 15
  Tears <- NoTears
  MaxSample = 5
PROPERTIES
  OnTime
  EveryAlarmIsServed
CHECK_DEADLOCK FALSE
