SPECIFICATION Spec
CONSTANTS
  c1 = c1
  c2 = c2
  k1 = k1
  k2 = k2
  All = All
  Alive = Alive
  Clients <- MCClients
  Keys <- MCKeys
  MaxVersion = 3
  MaxDepths <- MCDepths
  Cancellable <- MCCancellable
  MaxCancels = 1
INVARIANTS CommitsWhole Serial
PROPERTIES ViewKept
CHECK_DEADLOCK FALSE
SYMMETRY Symmetry
