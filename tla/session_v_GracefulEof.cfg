SPECIFICATION Spec
CONSTANTS
  Limit <- MCLimit
  MaxRequests <- MCMaxRequests
INVARIANT GracefulEof
CHECK_DEADLOCK FALSE
