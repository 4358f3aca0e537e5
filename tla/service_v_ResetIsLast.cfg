SPECIFICATION FairSpec
CONSTANTS
  s1 = s1
  s2 = s2
  k1 = k1
  Starters <- OneStarter
  Controllers <- OneController
  ThreadIo = 1
  AddressMayThrow = FALSE
  CatchesSignal = FALSE
  Disciplined = TRUE
  MaxContexts <- MCMaxContexts
INVARIANT ResetIsLast
CHECK_DEADLOCK FALSE
