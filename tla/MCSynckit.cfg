SPECIFICATION SynckitSpec
CONSTANTS
  g1 = g1
  g2 = g2
  g3 = g3
  k1 = k1
  a = a
  b = b
  NoLock = NoLock
  Nobody = Nobody
  Goroutines <- MCGoroutines
  Limits <- MCLimits
  Ceiling <- MCCeiling
  Callers <- MCGoroutines
  Keys <- OneKey
  Locks <- MCLocks
  Configurations <- BothConfigurations
  Parties <- MCGoroutines
  Lockers <- MCLockers
  LockersOf <- MCLockersOf
INVARIANTS NoLostWakeup TableExact NoneStranded LenListens LockersBack
PROPERTIES IsSemaphore NoStall Granted FinishReleases
CHECK_DEADLOCK FALSE
