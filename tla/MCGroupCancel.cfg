SPECIFICATION GroupSpec
CONSTANTS
  t1 = t1
  t2 = t2
  w1 = w1
  w2 = w2
  d1 = d1
  None = None
  Tasks <- MCTasks
  Waiters <- MCWaiters
  Receivers <- MCReceivers
  Isolation = FALSE
  ErrorOnGoexit = TRUE
INVARIANTS CancelStopsAll
CHECK_DEADLOCK FALSE
