SPECIFICATION Spec
CONSTANTS
  Queues <- MCQueues
  Versions = 2
  MaxData = 3
  MaxTx = 4
  MaxDepth = 3
  MaxFaults = 2
INVARIANTS FanOutAllOrNone
CHECK_DEADLOCK FALSE
