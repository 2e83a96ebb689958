\* Three rounds over three claims, two calls at a time.
SPECIFICATION FairSpec
CONSTANTS
  Claim <- MCClaim
  Model <- MCModel
  authorsOf <- MCAuthorsOf
  providerOf <- MCProviderOf
  kindOf <- MCKindOf
  Grounded <- MCGrounded
  Relation <- MCRelation
  MaxIterations = 6
  MaxRounds = 3
  MaxChallenges = 2
  MaxParallel = 2
  CallCost = 1
  ExchangeCost = 2
  JudgeReservation = 2
  ActualCost <- MCActualCost
  Funds = 12
  Judges = 1
  MinStandingDelta = 50
INVARIANTS JudgeCanPay
PROPERTIES CancelStops ContinueNeedsChange DebateEnds
