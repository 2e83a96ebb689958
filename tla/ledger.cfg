\* Five calls with reservation ids of their own, two at a time; the cap has
\* room for three estimates, and a call may cost twice its estimate.
SPECIFICATION FairSpec
CONSTANTS
  c1 = c1 c2 = c2 c3 = c3 c4 = c4 c5 = c5
  Call <- MCCall
  ResId <- MCDistinctResId
  resIdOf <- MCDistinctResIdOf
  CacheKey <- MCCacheKey
  cacheKeyOf <- MCCacheKeyOf
  ChecksCancel <- MCChecksCancel
  Registered <- MCRegistered
  Cap = 6
  CallCost = 2
  ActualCost <- MCActualCost
  MaxActual = 4
  MaxParallel = 2
INVARIANTS OverdraftBound
PROPERTIES EveryGuardSettles RefinesAccount
