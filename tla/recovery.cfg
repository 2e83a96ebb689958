SPECIFICATION Spec
CONSTANTS
  c1 = c1
  c2 = c2
  c3 = c3
  Call <- MCCall
  DeepOnly <- MCDeepOnly
  Runs <- MCRuns
  Writers <- MCWriters
  Caps <- MCCaps
  Estimate = 2
  Costs <- MCCosts
  MaxAttempts = 2
SYMMETRY Symmetry
CHECK_DEADLOCK FALSE
INVARIANTS ReplayReproduces RebuildFindsSpend LiabilityBound
PROPERTIES StoredIsNotAskedAgain
