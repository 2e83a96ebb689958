\* Three repair calls of claims.extract under one reservation id.
SPECIFICATION Spec
CONSTANTS
  c1 = c1 c2 = c2 c3 = c3 c4 = c4 c5 = c5
  Call <- MCSharedCall
  ResId <- MCSharedResId
  resIdOf <- MCSharedResIdOf
  CacheKey <- MCCacheKey
  cacheKeyOf <- MCSharedCacheKeyOf
  ChecksCancel = {}
  Registered <- MCSharedCall
  Cap = 6
  CallCost = 2
  ActualCost <- MCActualCost
  MaxActual = 4
  MaxParallel = 2
INVARIANT OrphanStaysHeld
