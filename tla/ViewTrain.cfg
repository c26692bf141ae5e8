SPECIFICATION LoopsSpec
CONSTANTS
  FirstView = "Insights"
  Rotate = {TRUE, FALSE}
  MaxKeys = 1
  Pid <- TwoPids
  MaxLaunches = 2
  MaxLines = 2
  Kinds = {"python"}
  Redirected = {TRUE}
  Owners <- Either
  RetryScans = 2
  None = None
INVARIANTS
  SweeperIsAlive
  LinesOnce
  OneRun
PROPERTIES
  DwellIsKept
  RotationShowsAll
  FollowsTheTrainer
  EndedIsDropped
