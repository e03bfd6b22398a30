SPECIFICATION CommitsSpec
CONSTANTS
  c1 = c1
  c2 = c2
  k1 = k1
  k2 = k2
  None = None
  Untouched = Untouched
  Clients <- MCClients
  Keys <- MCKeys
  MaxNesting = 2
  Nesting <- MCNesting
  MaxChains = 1
  Queues <- MCQueues
  Versions = 2
  MaxData = 3
  MaxTx = 4
  MaxDepth = 3
  MaxFaults = 2
SYMMETRY Symmetry
INVARIANTS
  OnlyCommitted
  ReadsOwnWrites
  AllOrNothing
  LastInFirstOut
  FanOutCommits
  MigrationRecorded
PROPERTIES CommitPublishes
CHECK_DEADLOCK FALSE
