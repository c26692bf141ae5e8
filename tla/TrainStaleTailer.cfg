SPECIFICATION Spec
CONSTANTS
  Pid <- TwoPids
  MaxLaunches = 2
  MaxLines = 1
  Kinds = {"compiled", "python"}
  Redirected = {TRUE, FALSE}
  Owners <- Arcade
  RetryScans = 2
  None = None
INVARIANT NothingInvented
