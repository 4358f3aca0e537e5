SPECIFICATION FairSpec
CONSTANTS
  Limit <- RealLimit
  MaxRequests <- RealMaxRequests
INVARIANTS IInv Backpressure OneOperationPerDirection ResponsesInOrder
INVARIANTS DeathIsExplained CleanTransfer
PROPERTIES CloseIsFinal SessionEnds ImplementsPipeline
CHECK_DEADLOCK FALSE
