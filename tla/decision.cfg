SPECIFICATION JudgementSpec
CONSTANTS
  Claim <- MCClaim
  Model <- MCModel
  authorsOf <- MCAuthorsOf
  providerOf <- MCProviderOf
  kindOf <- MCKindOf
  Grounded <- MCGrounded
  Relation <- MCRelation
  MaxIterations = 64
  Option <- MCOption
  Retired <- MCRetired
  PropagationDepth = 2
  Panel <- MCPanel
  Jurors = 2
  Answer <- MCAnswer
  Ending <- MCEnding
  Matrix <- MCMatrix
  Stop <- MCStop
INVARIANTS MarksMoveTheirClaims TriggersAreReal ConvergedIsSettled PropagatesNearest ChainsExplainStanding
CHECK_DEADLOCK FALSE
