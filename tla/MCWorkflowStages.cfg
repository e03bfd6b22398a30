SPECIFICATION Spec
CONSTANTS
  root = root
  foo = foo
  bar = bar
  w1 = w1
  w2 = w2
  None = None
  Processes = {root, foo, bar}
  Root = root
  Workers = {w1, w2}
  Defs <- StagesDefs
  RootDefs <- StagesRootDefs
  MaxUses = 2
  MaxLen = 5
  MaxEntries = 2
  MaxSchedules = 1
  MaxRetries = 1
  MaxFaults = 1
INVARIANTS EveryJoinWaits
CHECK_DEADLOCK FALSE
