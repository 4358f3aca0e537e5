SPECIFICATION FairSpec
CONSTANTS
  p1 = p1
  p2 = p2
  Payload <- MCPayload
  MaxMessages <- MCMaxMessages
INVARIANTS IInv EchoesAsReceived
PROPERTY ImplementsEcho
CHECK_DEADLOCK FALSE
