SPECIFICATION FactorySpec
CONSTANTS
  g1 = g1
  g2 = g2
  k1 = k1
  NoLock = NoLock
  Callers <- TwoCallers
  Keys <- OneKey
  Locks <- MCLocks
  Configurations <- NotReadOptimised
INVARIANTS MutualExclusion
