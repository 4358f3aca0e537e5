SPECIFICATION FairSpec
CONSTANTS
  s1 = s1
  s2 = s2
  k1 = k1
  Starters <- OneStarter
  Controllers <- OneController
  ThreadIo = 3
  AddressMayThrow = TRUE
  CatchesSignal = FALSE
  Disciplined = TRUE
  MaxContexts <- MCMaxContexts
INVARIANTS IInv ThreadsHaveContext ControlInv
PROPERTY StopIsHonoured
CHECK_DEADLOCK FALSE
