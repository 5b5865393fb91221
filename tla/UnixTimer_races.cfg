SPECIFICATION Spec
CONSTANTS
  u1 = u1
  u2 = u2
  init = init
  none = none
  Users <- MCUsers
  InitCallback = init
  NoCallback = none
  Callbacks <- MCCallbacks
  MAX_NB_TIMER = 2
  TIMEVAL_MAX = 15
  CanOpened = TRUE
  Races = TRUE
  Values <- OneTick
  Periods <- BothKinds
  MaxThreads = 2
  MaxLag = 1
  MaxIdle = 1
  MaxElapsed = 4
  UNS32_MAX = 7
  Tears <- ATickLess
  MaxSample = 4
INVARIANTS
  TypeOK
  NoRowIsLost
  HandlesMatchRows
  NoAlarmForgotten
PROPERTY ImplementsAlarmService
CHECK_DEADLOCK FALSE
