SPECIFICATION InsightsSpec
CONSTANTS
  Pid = {p1, p2}
  Request = {}
  Fleets = {}
  Rotates = FALSE
  Reachable = {"Hybrid", "Mock"}
  MaxKeys = 1
  MaxRows = 2
  Nothing = Nothing
PROPERTY HighlightIsTarget
CHECK_DEADLOCK FALSE
