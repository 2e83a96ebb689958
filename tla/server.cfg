\* One page, two acceptances, one resume; crashes at any point.
SPECIFICATION ServerSpec
CONSTANTS
  Viewer = {v1}
  Client = {c1, c2}
  Request <- MCRequest
  MaxRounds = 1
  MaxOverrides = 1
  MaxDrops = 1
  MaxOnWire = 1
  StoreFails = TRUE
INVARIANTS StreamFollowsLog ChainsToStored EventsStayTogether
PROPERTIES WatchedRunEnds
CHECK_DEADLOCK FALSE
