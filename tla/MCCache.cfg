SPECIFICATION FairSpec
CONSTANTS
  k1 = k1
  k2 = k2
  c1 = c1
  c2 = c2
  All = All
  NoHit = NoHit
  Keys <- MCKeys
  Clients <- MCClients
  Setups <- MCSetups
  MaxVersion = 2
INVARIANTS FindByIDFresh HitsBacked
PROPERTIES Refreshed
