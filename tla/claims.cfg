SPECIFICATION Spec
CONSTANTS
  Model <- MCModel
  Inputs <- MCInputs
  GroupAnswers <- MCGroupAnswers
  ClusterAnswers <- MCClusterAnswers
  AttachAnswers <- MCAttachAnswers
  RelationAnswers <- MCRelationAnswers
  MaxClaims = 3
  MaxPairsAsked = 2
  TopK = 1
  MaxPairs = 3
\* The stages end.
CHECK_DEADLOCK FALSE
INVARIANTS MergesConnected OnePositionOneOption CellsAreAccountedFor OpponentsAreCompared
