SPECIFICATION FairSpec
CONSTANTS
  root = root
  foo = foo
  bar = bar
  w1 = w1
  w2 = w2
  None = None
  Processes = {root, foo}
  Root = root
  Workers = {w1, w2}
  Defs <- MCDefs
  RootDefs <- MCRootDefs
  MaxUses = 2
  MaxLen = 2
  MaxEntries = 2
  MaxSchedules = 1
  MaxRetries = 1
  MaxFaults = 1
INVARIANTS RecordedOnce CalledOnce NothingSkipped NotForgotten
PROPERTIES Completes
CHECK_DEADLOCK FALSE
