SPECIFICATION FairSpec
CONSTANTS
  s1 = s1
  s2 = s2
  k1 = k1
  Starters <- TwoStarters
  Controllers <- OneController
  ThreadIo = 1
  AddressMayThrow = FALSE
  CatchesSignal = TRUE
  Disciplined = FALSE
  MaxContexts <- MCMaxContexts
PROPERTIES FailureMeansStarted StopIsHonoured
CHECK_DEADLOCK FALSE
