SPECIFICATION FairGroupSpec
CONSTANTS
  t1 = t1
  t2 = t2
  w1 = w1
  w2 = w2
  d1 = d1
  None = None
  Tasks <- MCTasks
  Waiters <- MCWaiters
  Receivers <- MCReceivers
  Isolation = FALSE
  ErrorOnGoexit = TRUE
INVARIANTS ErrorsConserved CancelReachable
PROPERTIES FailFast WaitReturns
CHECK_DEADLOCK FALSE
