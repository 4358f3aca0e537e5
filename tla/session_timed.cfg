SPECIFICATION TFairSpec
CONSTANTS
  Limit <- MCLimit
  MaxRequests <- MCMaxRequests
  Deadline <- MCDeadline
INVARIANTS TInv NothingWaitsTooLong ReadHasFullTime YoungSessionsWrite
PROPERTY TimeMakesFair
CHECK_DEADLOCK FALSE
