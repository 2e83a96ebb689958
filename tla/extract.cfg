\* Two positions, one repair in the budget, every mix of quotes and premises.
SPECIFICATION FairExtractSpec
CONSTANTS
  pA = pA pB = pB pC = pC
  Position <- MCPosition
  Extractions <- MCExtractions
  Repairs <- MCRepairs
  MaxParallelism = 2
  RepairCost = 2
  RepairCap = 3
INVARIANTS GroundsExactly RepairsWithinCap
PROPERTIES StageCompletes RefinesItems
\* The stage ends.
CHECK_DEADLOCK FALSE
