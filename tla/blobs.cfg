SPECIFICATION BlobSpec
CONSTANTS
  h1 = h1
  h2 = h2
  Payload <- MCPayload
  MaxSessions = 3
  MaxSweeps = 2
SYMMETRY Symmetry
CHECK_DEADLOCK FALSE
INVARIANTS SessionKeepsBlobs RowsOutliveCrashes
