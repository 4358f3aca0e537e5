SPECIFICATION CFairSpec
CONSTANTS
  Limit <- MCLimit
  MaxRequests <- MCMaxRequests
  Requests <- MCRequests
  DocRoots <- MCDocRoots
  Cwd <- MCCwd
  Dirs <- MCDirs
  Files <- MCFiles
  Denied <- MCDenied
  Dotted <- MCDotted
  Extension <- MCExtension
INVARIANTS CInv AnswersFit ServesTheRootOnly
PROPERTIES OutOfStepByHeadError ImplementsSession
CHECK_DEADLOCK FALSE
