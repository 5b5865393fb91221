SPECIFICATION Spec
CONSTANTS
  Codes = {1, 2, 3}
  Bits = {1, 2}
  Mask <- MCMask
  EMCY_MAX_ERRORS = 2
  error_history_size = 2
  StringSize = 2
  DomainSize = 2
  maxsize = 3
  Written_to <- MCWritten
  MaxRaised = 3
  MaxWrites = 2
  MaxSwitches = 3
  MaxLosses = 1
CHECK_DEADLOCK FALSE
INVARIANTS
  RegisterTellsActiveErrors
  HistoryIsNewestFirst
  ConsumerKnowsErrors
  ReadsBack
