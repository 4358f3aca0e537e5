SPECIFICATION KFairSpec
CONSTANTS
  Limit = 8
  MaxRequests = 1
INVARIANTS KIInv ShutdownsOverlap
PROPERTIES BothFinish NoGoodbyeInstead ClientReturns
